---- MODULE Spec2Model ----
(***************************************************************************)
(* A model of the sandwich-finder: the Timestamp order, the validation of  *)
(* a sandwich candidate (SandwichCandidate::new), the enumeration of       *)
(* detect, the naming of a stored sandwich, the lookup-table cache and the *)
(* timestamps the extraction gives to the events of one transaction.       *)
(***************************************************************************)
EXTENDS Integers, Sequences, FiniteSets, TLC

VARIABLES
    ta, tb, cmp,                       \* Timestamp comparison: operands and result
    nin, nres,                         \* SandwichCandidate::new: arguments and result
    swaps, transfers,                  \* detect: its arguments
    pc, anchor, matched_timestamps,    \* detect: position of the outer loop, marks
    sandwiches, candidates,            \* detect: emitted list, candidates of the anchor
    todo, pos,                         \* detect: buckets left to iterate, (k,i,j,m,n)
    names,                             \* insert_sandwiches: the hashed names
    block_slot, raw_tx, tx_events, finder, \* extraction: slot, transaction, events, pass
    lut_cache, chain, stream,          \* LUT cache, tables on chain, messages in flight
    lpc, futs, blocks,                 \* event processor: position, decodes, blocks sent
    ep, next_block, senders, channel,  \* event processor task, block stream, send tasks, mpsc
    decode_failed, subscriptions,      \* blocks whose decode panicked, subscriptions made
    indexer, inserts, store, lost,     \* indexer loop, insert tasks, committed slots, failed
    rt, next_meta, meta_last,          \* realtime detector: main loop, block-meta stream
    detections, reads, aborted,        \* detection tasks in flight, their reads, cancelled
    dispatched,                        \* the windows of the detection tasks spawned
    off_pc, next_chunk, chunk_count, handles, \* offline detector: main, chunks, tasks
    tr_in, tr_pass, tr_out,            \* transfer finders: instruction, pass, transfers
    leg_in, leg_pc, leg_out,           \* generic swap finder: arguments, position, swaps
    dc_in, dc_pc, dc_out               \* decompile_tx: message, position, rebuilt ixs

tsVars  == <<ta, tb, cmp>>
newVars == <<nin, nres>>
detVars == <<swaps, transfers, pc, anchor, matched_timestamps, sandwiches,
             candidates, todo, pos, names>>
exVars  == <<block_slot, raw_tx, tx_events, finder>>
lutVars == <<lut_cache, chain, stream, lpc, futs, blocks>>
pipeVars == <<ep, next_block, senders, channel, decode_failed, subscriptions,
              indexer, inserts, store, lost>>
rtVars  == <<rt, next_meta, meta_last, detections, reads, aborted, dispatched>>
offVars == <<off_pc, next_chunk, chunk_count, handles>>
trVars  == <<tr_in, tr_pass, tr_out>>
legVars == <<leg_in, leg_pc, leg_out>>
decVars == <<dc_in, dc_pc, dc_out>>
finderVars == <<trVars, legVars, decVars>>
sysVars == <<pipeVars, rtVars, offVars, finderVars>>
vars    == <<tsVars, newVars, detVars, exVars, lutVars, sysVars>>

-----------------------------------------------------------------------------
(* Bounds of the model.                                                    *)

\* largest value of a timestamp field in the comparison model
MaxField == 1
\* largest number of swaps in one call of new / one input of detect
MaxSwaps == 4
\* largest token amount of one swap
MaxAmount == 2
\* largest number of transfers handed to new / detect
MaxTransfers == 2
\* largest number of top-level instructions of the extracted transaction
MaxIxs == 2
\* largest number of inner instructions of one top-level instruction
MaxInner == 2
\* largest number of addresses of a lookup table
MaxLutLen == 2
\* largest number of transactions of a block, of blocks sent, of messages in flight
MaxTxs == 2
MaxBlocks == 2
MaxStream == 2
\* capacity of the batch channel in the model (mpsc::channel(100) in the code)
ChannelCap == 1
\* largest number of blocks the block stream delivers, of subscriptions a driver makes
MaxPipeBlocks == 3
MaxSubscriptions == 2
\* largest number of detection tasks a detector is made to start
MaxTasks == 17
\* number of consecutive block-meta pings the realtime detector meets alone
MaxPings == 16
\* largest number of inner instructions searched for transfers, for swap legs
MaxTransferIxs == 2
MaxLegIxs == 3
\* largest number of static keys, of LUT keys of either kind, of the account
\* references of the instruction of a decompiled message
MaxStaticKeys == 3
MaxLutKeys == 1
MaxIxAccounts == 2

-----------------------------------------------------------------------------
(* Option<T>: None, or Some(v).                                            *)

NoneOpt == [some |-> FALSE, val |-> 0]
Some(v) == [some |-> TRUE, val |-> v]

\* Option<Arc<str>> of outer_program: the absent wrapper
None == "None"

-----------------------------------------------------------------------------
(* Timestamp and its derived order.                                        *)

Timestamp(slot, inclusion_order, ix_index, inner_ix_index) ==
    [slot |-> slot, inclusion_order |-> inclusion_order,
     ix_index |-> ix_index, inner_ix_index |-> inner_ix_index]

\* the order Option<u32> would have were Some declared before None
OptionLessNoneLast(a, b) ==
    \/ a.some /\ ~b.some
    \/ a.some /\ b.some /\ a.val < b.val

\* derive(Ord) on Option<u32>: the variant None is declared before Some
OptionLess(a, b) ==
    \/ ~a.some /\ b.some
    \/ a.some /\ b.some /\ a.val < b.val

\* derive(PartialOrd, Ord) on the struct: fields compared in declaration order
TimestampLess(a, b) ==
    IF a.slot # b.slot THEN a.slot < b.slot
    ELSE IF a.inclusion_order # b.inclusion_order
         THEN a.inclusion_order < b.inclusion_order
    ELSE IF a.ix_index # b.ix_index THEN a.ix_index < b.ix_index
    ELSE OptionLess(a.inner_ix_index, b.inner_ix_index)

\* Ordering returned by Ord::cmp
TimestampCmp(a, b) ==
    IF TimestampLess(a, b) THEN "Less"
    ELSE IF TimestampLess(b, a) THEN "Greater"
    ELSE "Equal"

Fields == 0..MaxField
InnerIndexes == {NoneOpt} \cup {Some(k) : k \in Fields}
Timestamps ==
    {Timestamp(s, o, i, n) : s \in Fields, o \in Fields, i \in Fields,
                             n \in InnerIndexes}

-----------------------------------------------------------------------------
(* TradePair.                                                              *)

TradePair(amm, input_mint, output_mint) ==
    [amm |-> amm, input_mint |-> input_mint, output_mint |-> output_mint]

reverse(p) == TradePair(p.amm, p.output_mint, p.input_mint)

PairOf(s) == TradePair(s.amm, s.input_mint, s.output_mint)

-----------------------------------------------------------------------------
(* SandwichCandidate::new.                                                 *)

\* pair_from_swaps: None for an empty slice or one that is not coherent
NoPair == [some |-> FALSE, outer_program |-> None, pair |-> TradePair("", "", "")]

pair_from_swaps(sw, check_wrapper) ==
    IF Len(sw) = 0 THEN NoPair
    ELSE LET first == sw[1]
             pair == PairOf(first)
             outer_program == IF check_wrapper THEN first.outer_program ELSE None
         IN IF \E x \in 1..Len(sw) :
                   \/ PairOf(sw[x]) # pair
                   \/ (sw[x].outer_program # outer_program /\ check_wrapper)
            THEN NoPair
            ELSE [some |-> TRUE, outer_program |-> outer_program, pair |-> pair]

RECURSIVE SumOf(_, _)
SumOf(sw, field) ==
    IF Len(sw) = 0 THEN 0 ELSE sw[1][field] + SumOf(Tail(sw), field)

\* i128::saturating_sub; the operands are sums of u64 amounts, so the
\* difference of two of them never leaves the i128 range
saturating_sub(x, y) == x - y

SeqRange(s) == {s[x] : x \in 1..Len(s)}

\* a filter keeping the transfers with either end in its set
RetainedAnyEnd(frontrun_set, backrun_set, trs) ==
    LET Keep(t) == t.input_ata \in frontrun_set \/ t.output_ata \in backrun_set
    IN SelectSeq(trs, Keep)

\* a filter that keeps only the transfers of the second mint
RetainedOfMint(frontrun_set, backrun_set, trs) ==
    LET Keep(t) == /\ t.input_ata \in frontrun_set /\ t.output_ata \in backrun_set
                   /\ t.mint = "M2"
    IN SelectSeq(trs, Keep)

\* the transfers kept: both ends are looked up in the sets as first collected
Retained(frontrun_set, backrun_set, trs) ==
    LET Keep(t) == t.input_ata \in frontrun_set /\ t.output_ata \in backrun_set
    IN SelectSeq(trs, Keep)

\* the for loop removing the ends of every kept transfer from the two sets
RECURSIVE RemoveEnds(_, _, _)
RemoveEnds(frontrun_set, backrun_set, kept) ==
    IF Len(kept) = 0 THEN <<frontrun_set, backrun_set>>
    ELSE RemoveEnds(frontrun_set \ {kept[1].input_ata},
                    backrun_set \ {kept[1].output_ata}, Tail(kept))

Err(e) == [ok |-> FALSE, err |-> e, profit_a |-> 0, profit_b |-> 0,
           frontrun |-> <<>>, victim |-> <<>>, backrun |-> <<>>,
           transfers |-> <<>>]

NonProfitable(a, b) == [Err("NonProfitable") EXCEPT !.profit_a = a, !.profit_b = b]

\* no victim wrapper check at all
VictimWrapperOkNoCheck(victim, frontrun_wrapper) == TRUE

\* victim wrapper check: none of the victims shares the non-None wrapper
VictimWrapperOk(victim, frontrun_wrapper) ==
    \A x \in 1..Len(victim) :
        victim[x].outer_program = None \/ victim[x].outer_program # frontrun_wrapper

\* a profitability check on token A alone
ProfitableAOnly(profit_a, profit_b) == profit_a >= 0

\* profitability check: neither token is lost
Profitable(profit_a, profit_b) == profit_a >= 0 /\ profit_b >= 0

\* a pair check asking for the same direction
PairsAgreeSameDirection(frontrun_pair, backrun_pair) == frontrun_pair = backrun_pair

\* pair check: the backrun trades the frontrun's pool in the reverse direction
PairsAgree(frontrun_pair, backrun_pair) == reverse(frontrun_pair) = backrun_pair

\* the checks of new with the wrapper comparison ahead of the pair comparison
new_wrapper_before_pair(frontrun, victim, backrun, trs) ==
    LET fp == pair_from_swaps(frontrun, TRUE)
        bp == pair_from_swaps(backrun, TRUE)
        vp == pair_from_swaps(victim, FALSE)
        profit_a == saturating_sub(SumOf(backrun, "output_amount"),
                                   SumOf(frontrun, "input_amount"))
        profit_b == saturating_sub(SumOf(frontrun, "output_amount"),
                                   SumOf(backrun, "input_amount"))
        frontrun_set == {frontrun[x].output_ata : x \in 1..Len(frontrun)}
        backrun_set == {backrun[x].input_ata : x \in 1..Len(backrun)}
        kept == Retained(frontrun_set, backrun_set, trs)
        rest == RemoveEnds(frontrun_set, backrun_set, kept)
    IN IF ~fp.some THEN Err("InvalidFrontrun")
       ELSE IF ~bp.some THEN Err("InvalidBackrun")
       ELSE IF fp.outer_program # bp.outer_program
            THEN Err("FrontrunBackrunWrapperMismatch")
       ELSE IF ~PairsAgree(fp.pair, bp.pair) THEN Err("FrontrunBackrunPairMismatch")
       ELSE IF ~vp.some THEN Err("InvalidVictim")
       ELSE IF vp.pair # fp.pair THEN Err("InvalidVictim")
       ELSE IF ~VictimWrapperOk(victim, fp.outer_program) THEN Err("InvalidVictim")
       ELSE IF ~Profitable(profit_a, profit_b) THEN NonProfitable(profit_a, profit_b)
       ELSE IF rest[1] # rest[2] THEN Err("InvalidTransfers")
       ELSE [ok |-> TRUE, err |-> "", profit_a |-> profit_a, profit_b |-> profit_b,
             frontrun |-> frontrun, victim |-> victim, backrun |-> backrun,
             transfers |-> kept]

\* the checks of new with the victim checks applied to the victims present only
new_empty_victim_allowed(frontrun, victim, backrun, trs) ==
    LET fp == pair_from_swaps(frontrun, TRUE)
        bp == pair_from_swaps(backrun, TRUE)
        vp == pair_from_swaps(victim, FALSE)
        profit_a == saturating_sub(SumOf(backrun, "output_amount"),
                                   SumOf(frontrun, "input_amount"))
        profit_b == saturating_sub(SumOf(frontrun, "output_amount"),
                                   SumOf(backrun, "input_amount"))
        frontrun_set == {frontrun[x].output_ata : x \in 1..Len(frontrun)}
        backrun_set == {backrun[x].input_ata : x \in 1..Len(backrun)}
        kept == Retained(frontrun_set, backrun_set, trs)
        rest == RemoveEnds(frontrun_set, backrun_set, kept)
    IN IF ~fp.some THEN Err("InvalidFrontrun")
       ELSE IF ~bp.some THEN Err("InvalidBackrun")
       ELSE IF ~PairsAgree(fp.pair, bp.pair) THEN Err("FrontrunBackrunPairMismatch")
       ELSE IF fp.outer_program # bp.outer_program
            THEN Err("FrontrunBackrunWrapperMismatch")
       ELSE IF Len(victim) > 0 /\ ~vp.some THEN Err("InvalidVictim")
       ELSE IF vp.some /\ vp.pair # fp.pair THEN Err("InvalidVictim")
       ELSE IF ~VictimWrapperOk(victim, fp.outer_program) THEN Err("InvalidVictim")
       ELSE IF ~Profitable(profit_a, profit_b) THEN NonProfitable(profit_a, profit_b)
       ELSE IF rest[1] # rest[2] THEN Err("InvalidTransfers")
       ELSE [ok |-> TRUE, err |-> "", profit_a |-> profit_a, profit_b |-> profit_b,
             frontrun |-> frontrun, victim |-> victim, backrun |-> backrun,
             transfers |-> kept]

\* the txs argument only selects the transactions stored with the candidate and
\* takes no part in any check; it is left out
SandwichCandidate_new(frontrun, victim, backrun, trs) ==
    LET fp == pair_from_swaps(frontrun, TRUE)
        bp == pair_from_swaps(backrun, TRUE)
        vp == pair_from_swaps(victim, FALSE)
        frontrun_spent == SumOf(frontrun, "input_amount")
        frontrun_received == SumOf(frontrun, "output_amount")
        backrun_spent == SumOf(backrun, "input_amount")
        backrun_received == SumOf(backrun, "output_amount")
        profit_a == saturating_sub(backrun_received, frontrun_spent)
        profit_b == saturating_sub(frontrun_received, backrun_spent)
        frontrun_set == {frontrun[x].output_ata : x \in 1..Len(frontrun)}
        backrun_set == {backrun[x].input_ata : x \in 1..Len(backrun)}
        kept == Retained(frontrun_set, backrun_set, trs)
        rest == RemoveEnds(frontrun_set, backrun_set, kept)
    IN IF ~fp.some THEN Err("InvalidFrontrun")
       ELSE IF ~bp.some THEN Err("InvalidBackrun")
       ELSE IF ~PairsAgree(fp.pair, bp.pair) THEN Err("FrontrunBackrunPairMismatch")
       ELSE IF fp.outer_program # bp.outer_program
            THEN Err("FrontrunBackrunWrapperMismatch")
       ELSE IF ~vp.some THEN Err("InvalidVictim")
       ELSE IF vp.pair # fp.pair THEN Err("InvalidVictim")
       ELSE IF ~VictimWrapperOk(victim, fp.outer_program) THEN Err("InvalidVictim")
       ELSE IF ~Profitable(profit_a, profit_b) THEN NonProfitable(profit_a, profit_b)
       ELSE IF rest[1] # rest[2] THEN Err("InvalidTransfers")
       ELSE [ok |-> TRUE, err |-> "", profit_a |-> profit_a, profit_b |-> profit_b,
             frontrun |-> frontrun, victim |-> victim, backrun |-> backrun,
             transfers |-> kept]

-----------------------------------------------------------------------------
(* Records.                                                                *)

SwapV2(id, ts, outer_program, amm, input_mint, output_mint, input_amount, output_amount, input_ata, output_ata) ==
    [id |-> id, ts |-> ts, outer_program |-> outer_program, amm |-> amm,
     input_mint |-> input_mint, output_mint |-> output_mint,
     input_amount |-> input_amount, output_amount |-> output_amount,
     input_ata |-> input_ata, output_ata |-> output_ata]

TransferV2(id, ts, mint, amount, input_ata, output_ata) ==
    [id |-> id, ts |-> ts, mint |-> mint, amount |-> amount,
     input_ata |-> input_ata, output_ata |-> output_ata]

Tuples(S, n) == [1..n -> S]

-----------------------------------------------------------------------------
(* Idle values of the parts a specification does not use.                  *)

T0 == Timestamp(0, 0, 0, NoneOpt)
NoInput == [frontrun |-> <<>>, victim |-> <<>>, backrun |-> <<>>, transfers |-> <<>>]
NoPos == [k |-> None, i |-> 0, j |-> 0, m |-> 0, n |-> 0]

TsIdle == ta = T0 /\ tb = T0 /\ cmp = "Unset"
NewIdle == nin = NoInput /\ nres = Err("NotCalled")
DetIdle ==
    /\ swaps = <<>> /\ transfers = <<>> /\ pc = "idle" /\ anchor = 0
    /\ matched_timestamps = {} /\ sandwiches = <<>> /\ candidates = <<>>
    /\ todo = {} /\ pos = NoPos /\ names = <<>>
ExIdle ==
    /\ block_slot = 0 /\ raw_tx = [index |-> 0, ixs |-> <<>>] /\ tx_events = <<>>
    /\ finder = 0
LutIdle ==
    /\ lut_cache = <<>> /\ chain = <<>> /\ stream = <<>> /\ lpc = "idle"
    /\ futs = <<>> /\ blocks = 0
PipeIdle ==
    /\ ep = "idle" /\ next_block = 0 /\ senders = {} /\ channel = <<>>
    /\ decode_failed = {} /\ subscriptions = 0
    /\ indexer = "idle" /\ inserts = {} /\ store = {} /\ lost = {}
RtIdle ==
    /\ rt = "idle" /\ next_meta = 0 /\ meta_last = 0
    /\ detections = {} /\ reads = {} /\ aborted = {} /\ dispatched = <<>>
OffIdle == off_pc = "idle" /\ next_chunk = 0 /\ chunk_count = 0 /\ handles = {}
NoIx == [program_id |-> "", data |-> [tag |-> 0], accounts |-> <<>>]
TrIdle ==
    /\ tr_in = [ix |-> NoIx, inner |-> <<>>, account_keys |-> <<>>,
                meta |-> [pre_token_balances |-> <<>>]]
    /\ tr_pass = 0 /\ tr_out = <<>>
LegIdle ==
    /\ leg_in = [finder |-> 0, ix |-> NoIx, inner |-> <<>>, account_keys |-> <<>>,
                 meta |-> [pre_token_balances |-> <<>>]]
    /\ leg_pc = "idle" /\ leg_out = <<>>
NoMessage ==
    [num_static_keys |-> 0, num_required_signatures |-> 0,
     num_readonly_signed_accounts |-> 0, num_readonly_unsigned_accounts |-> 0,
     num_writable_lut_keys |-> 0, num_readonly_lut_keys |-> 0, instructions |-> <<>>]
NoDecompiled == [ixs |-> <<>>, account_keys |-> <<>>]
DecIdle == dc_in = NoMessage /\ dc_pc = "idle" /\ dc_out = NoDecompiled
SysIdle == PipeIdle /\ RtIdle /\ OffIdle /\ TrIdle /\ LegIdle /\ DecIdle

-----------------------------------------------------------------------------
(* SpecTimestamp: two timestamps are compared.                             *)

InitTimestamp ==
    /\ ta \in Timestamps /\ tb \in Timestamps /\ cmp = "Unset"
    /\ NewIdle /\ DetIdle /\ ExIdle /\ LutIdle /\ SysIdle

Compare ==
    /\ cmp = "Unset"
    /\ cmp' = TimestampCmp(ta, tb)
    /\ UNCHANGED <<ta, tb, newVars, detVars, exVars, lutVars, sysVars>>

NextTimestamp == Compare

SpecTimestamp == InitTimestamp /\ [][NextTimestamp]_vars

-----------------------------------------------------------------------------
(* SpecNew: SandwichCandidate::new is called on one set of arguments.      *)

W1 == "W1"
Mints == <<"M1", "M2">>
P0 == TradePair("X", Mints[1], Mints[2])
Pairs == {P0, reverse(P0), TradePair("Y", Mints[1], Mints[2])}
Atas == {"A1", "A2"}
Amounts == 1..MaxAmount

NewSwap(pair, w, ia, oa, iata, oata) ==
    SwapV2(0, T0, w, pair.amm, pair.input_mint, pair.output_mint, ia, oa, iata, oata)

NewTransfer(iata, oata) == TransferV2(0, T0, Mints[2], 1, iata, oata)

Splits(total) ==
    {l \in (0..total) \X (0..total) \X (0..total) : l[1] + l[2] + l[3] <= total}

\* arguments varying in pair and wrapper, up to MaxSwaps swaps over the roles
StructSwaps == {NewSwap(p, w, 1, 2, "A1", "A1") : p \in Pairs, w \in {None, W1}}
StructInput(x) ==
    \E l \in Splits(MaxSwaps) :
        \E F \in Tuples(StructSwaps, l[1]), V \in Tuples(StructSwaps, l[2]),
           B \in Tuples(StructSwaps, l[3]) :
            x = [frontrun |-> F, victim |-> V, backrun |-> B, transfers |-> <<>>]

\* well-formed arguments with one victim, varying in the amounts
OneVictim == <<NewSwap(P0, None, 1, 2, "A1", "A1")>>
ValueFront == {NewSwap(P0, W1, ia, oa, "A1", "A1") : ia \in Amounts, oa \in Amounts}
ValueBack ==
    {NewSwap(reverse(P0), W1, ia, oa, "A1", "A1") : ia \in Amounts, oa \in Amounts}
RunSplits == {l \in (1..MaxSwaps) \X (1..MaxSwaps) : l[1] + l[2] + 1 <= MaxSwaps}
ValueInput(x) ==
    \E l \in RunSplits :
        \E F \in Tuples(ValueFront, l[1]), B \in Tuples(ValueBack, l[2]) :
            x = [frontrun |-> F, victim |-> OneVictim, backrun |-> B,
                 transfers |-> <<>>]

\* well-formed profitable arguments, varying in the accounts and the transfers
FundsFront == {NewSwap(P0, W1, 1, 2, "A1", a) : a \in Atas}
FundsBack == {NewSwap(reverse(P0), W1, 1, 2, a, "A1") : a \in Atas}
TransferChoices == {NewTransfer(a, b) : a \in Atas, b \in Atas}
FundsInput(x) ==
    \E l \in RunSplits, n \in 0..MaxTransfers :
        \E F \in Tuples(FundsFront, l[1]), B \in Tuples(FundsBack, l[2]),
           T \in Tuples(TransferChoices, n) :
            x = [frontrun |-> F, victim |-> OneVictim, backrun |-> B, transfers |-> T]

InitNew ==
    /\ StructInput(nin) \/ ValueInput(nin) \/ FundsInput(nin)
    /\ nres = Err("NotCalled")
    /\ TsIdle /\ DetIdle /\ ExIdle /\ LutIdle /\ SysIdle

CallNew ==
    /\ nres.err = "NotCalled"
    /\ nres' = SandwichCandidate_new(nin.frontrun, nin.victim, nin.backrun,
                                     nin.transfers)
    /\ UNCHANGED <<nin, tsVars, detVars, exVars, lutVars, sysVars>>

NextNew == CallNew

SpecNew == InitNew /\ [][NextNew]_vars

\* new called on the arguments that carry transfers
InitNewFunds ==
    /\ FundsInput(nin)
    /\ nres = Err("NotCalled")
    /\ TsIdle /\ DetIdle /\ ExIdle /\ LutIdle /\ SysIdle

SpecNewFunds == InitNewFunds /\ [][NextNew]_vars

-----------------------------------------------------------------------------
(* detect: the enumeration of candidates over a sorted list of swaps.      *)

JUP_V6_PROGRAM_ID == "JUP6LkbZbjS1jKKwapdHNy74zcZ3tLUZoi5QNyVTaV4"
JUP_V4_PROGRAM_ID == "JUP4Fb2cqiRUcaTHdrPC8h2gNsA2ETXiPDD33WcGuJB"
DFLOW_PROGRAM_ID == "DF1ow4tspfHX9JwWJsAb9epbkA8hmpSEAtxXy1V27QBH"

\* a list of aggregators without DFlow
is_known_aggregator_no_dflow(program_id) ==
    program_id \in {JUP_V6_PROGRAM_ID, JUP_V4_PROGRAM_ID}

is_known_aggregator(program_id) ==
    program_id \in {JUP_V6_PROGRAM_ID, JUP_V4_PROGRAM_ID, DFLOW_PROGRAM_ID}

\* a filter that takes the anchor itself among the swaps before it
before_swaps_inclusive(sw, a) ==
    LET Keep(s) == /\ s.amm = sw[a].amm /\ PairOf(s) = PairOf(sw[a])
                   /\ ~TimestampLess(sw[a].ts, s.ts)
    IN SelectSeq(sw, Keep)

\* the swaps of the anchor's pair before it, in input order
before_swaps(sw, a) ==
    LET Keep(s) == /\ s.amm = sw[a].amm /\ PairOf(s) = PairOf(sw[a])
                   /\ TimestampLess(s.ts, sw[a].ts)
    IN SelectSeq(sw, Keep)

\* the swaps of the reverse pair after it, in input order
after_swaps(sw, a) ==
    LET Keep(s) == /\ s.amm = sw[a].amm /\ PairOf(s) = reverse(PairOf(sw[a]))
                   /\ TimestampLess(sw[a].ts, s.ts)
    IN SelectSeq(sw, Keep)

\* one bucket of the map from outer_program to swaps
Bucket(sq, k) == LET Keep(s) == s.outer_program = k IN SelectSeq(sq, Keep)
BucketKeys(sq) == {sq[x].outer_program : x \in 1..Len(sq)}
before_outer(sw, a, k) == Bucket(before_swaps(sw, a), k)
after_outer(sw, a, k) == Bucket(after_swaps(sw, a), k)

\* a victim filter without the bound by the first backrun
victim_unbounded(sw, a, frontrun_last, backrun_first) ==
    LET Keep(s) == /\ TimestampLess(frontrun_last.ts, s.ts)
                   /\ s.amm = sw[a].amm /\ s.input_mint = sw[a].input_mint
                   /\ s.output_mint = sw[a].output_mint
    IN SelectSeq(sw, Keep)

\* the victims of a tuple: the swaps of the anchor's pair between the last
\* frontrun and the first backrun
victim_of(sw, a, frontrun_last, backrun_first) ==
    LET Keep(s) == /\ TimestampLess(frontrun_last.ts, s.ts)
                   /\ TimestampLess(s.ts, backrun_first.ts)
                   /\ s.amm = sw[a].amm /\ s.input_mint = sw[a].input_mint
                   /\ s.output_mint = sw[a].output_mint
    IN SelectSeq(sw, Keep)

\* the four nested loops: i in 0..blen, j in i+1..=blen, m in 0..alen,
\* n in m+1..=alen; the position after the body, or after a break
LoopsDone == [k |-> None, i |-> -1, j |-> -1, m |-> -1, n |-> -1]
FirstPos(k) == [k |-> k, i |-> 0, j |-> 1, m |-> 0, n |-> 1]
NextI(p, blen, alen) ==
    IF p.i + 1 < blen THEN [p EXCEPT !.i = p.i + 1, !.j = p.i + 2, !.m = 0, !.n = 1]
    ELSE LoopsDone
NextJ(p, blen, alen) ==
    IF p.j + 1 <= blen THEN [p EXCEPT !.j = p.j + 1, !.m = 0, !.n = 1]
    ELSE NextI(p, blen, alen)
NextM(p, blen, alen) ==
    IF p.m + 1 < alen THEN [p EXCEPT !.m = p.m + 1, !.n = p.m + 2]
    ELSE NextJ(p, blen, alen)
NextN(p, blen, alen) ==
    IF p.n + 1 <= alen THEN [p EXCEPT !.n = p.n + 1]
    ELSE NextM(p, blen, alen)

\* a match that leaves the n loop as soon as the profit in token A is negative
AfterBodyBreakOnA(r, p, blen, alen) ==
    IF r.err = "NonProfitable" THEN
        IF r.profit_b < 0 \/ r.profit_a < 0 THEN NextM(p, blen, alen)
        ELSE NextN(p, blen, alen)
    ELSE NextN(p, blen, alen)

\* where the match on the result of new sends the loops
AfterBody(r, p, blen, alen) ==
    IF r.err = "NonProfitable" THEN
        IF r.profit_b < 0 THEN NextM(p, blen, alen)
        ELSE IF p.n = alen /\ r.profit_a < 0 THEN NextJ(p, blen, alen)
        ELSE IF p.n = alen /\ p.m = 0 /\ r.profit_a < 0 THEN NextI(p, blen, alen)
        ELSE NextN(p, blen, alen)
    ELSE NextN(p, blen, alen)

\* the arguments of new at a position
TupleAt(sw, a, p) ==
    LET bs == before_outer(sw, a, p.k)
        as == after_outer(sw, a, p.k)
    IN [frontrun |-> SubSeq(bs, p.i + 1, p.j),
        backrun |-> SubSeq(as, p.m + 1, p.n),
        victim |-> victim_of(sw, a, bs[p.j], as[p.m + 1])]

\* the key the candidates of an anchor are sorted by
RankKey(c) == <<Len(c.victim), Len(c.frontrun) + Len(c.backrun)>>
RankLess(x, y) == x[1] < y[1] \/ (x[1] = y[1] /\ x[2] < y[2])

\* candidates.first() after the stable sort by RankKey
FirstOfSorted(cands) ==
    LET least == CHOOSE x \in 1..Len(cands) :
                     \A y \in 1..Len(cands) :
                         \/ RankLess(RankKey(cands[x]), RankKey(cands[y]))
                         \/ (RankKey(cands[y]) = RankKey(cands[x]) /\ x <= y)
    IN cands[least]

\* candidates.last() after the stable sort by RankKey
LastOfSorted(cands) ==
    LET best == CHOOSE x \in 1..Len(cands) :
                    \A y \in 1..Len(cands) :
                        \/ RankLess(RankKey(cands[y]), RankKey(cands[x]))
                        \/ (RankKey(cands[y]) = RankKey(cands[x]) /\ y <= x)
    IN cands[best]

SkipAnchor ==
    /\ pc = "anchor" /\ anchor <= Len(swaps)
    /\ \/ swaps[anchor].ts \in matched_timestamps
       \/ Len(before_swaps(swaps, anchor)) = 0
       \/ Len(after_swaps(swaps, anchor)) = 0
    /\ anchor' = anchor + 1
    /\ UNCHANGED <<swaps, transfers, pc, matched_timestamps, sandwiches, candidates,
                   todo, pos, names, tsVars, newVars, exVars, lutVars, sysVars>>

StartAnchor ==
    /\ pc = "anchor" /\ anchor <= Len(swaps)
    /\ swaps[anchor].ts \notin matched_timestamps
    /\ Len(before_swaps(swaps, anchor)) # 0
    /\ Len(after_swaps(swaps, anchor)) # 0
    /\ pc' = "buckets"
    /\ todo' = BucketKeys(before_swaps(swaps, anchor))
    /\ candidates' = <<>>
    /\ UNCHANGED <<swaps, transfers, anchor, matched_timestamps, sandwiches, pos,
                   names, tsVars, newVars, exVars, lutVars, sysVars>>

\* the iteration over the buckets of before_outer takes them in any order
SkipBucket ==
    /\ pc = "buckets"
    /\ \E k \in todo :
        /\ \/ (k # None /\ is_known_aggregator(k))
           \/ k \notin BucketKeys(after_swaps(swaps, anchor))
        /\ todo' = todo \ {k}
    /\ UNCHANGED <<swaps, transfers, pc, anchor, matched_timestamps, sandwiches,
                   candidates, pos, names, tsVars, newVars, exVars, lutVars, sysVars>>

EnterBucket ==
    /\ pc = "buckets"
    /\ \E k \in todo :
        /\ ~(k # None /\ is_known_aggregator(k))
        /\ k \in BucketKeys(after_swaps(swaps, anchor))
        /\ todo' = todo \ {k}
        /\ pos' = FirstPos(k)
    /\ pc' = "enum"
    /\ UNCHANGED <<swaps, transfers, anchor, matched_timestamps, sandwiches,
                   candidates, names, tsVars, newVars, exVars, lutVars, sysVars>>

TryTuple ==
    /\ pc = "enum"
    /\ LET t == TupleAt(swaps, anchor, pos)
           r == SandwichCandidate_new(t.frontrun, t.victim, t.backrun, transfers)
           nxt == AfterBody(r, pos, Len(before_outer(swaps, anchor, pos.k)),
                            Len(after_outer(swaps, anchor, pos.k)))
       IN /\ IF r.ok
             THEN /\ candidates' = Append(candidates, r)
                  /\ matched_timestamps' =
                         matched_timestamps \cup {t.victim[x].ts : x \in 1..Len(t.victim)}
             ELSE UNCHANGED <<candidates, matched_timestamps>>
          /\ IF nxt = LoopsDone
             THEN pc' = "buckets" /\ pos' = NoPos
             ELSE pc' = "enum" /\ pos' = nxt
    /\ UNCHANGED <<swaps, transfers, anchor, sandwiches, todo, names, tsVars, newVars, exVars, lutVars, sysVars>>

FinishAnchor ==
    /\ pc = "buckets" /\ todo = {}
    /\ sandwiches' = IF Len(candidates) # 0
                     THEN Append(sandwiches, LastOfSorted(candidates))
                     ELSE sandwiches
    /\ pc' = "anchor"
    /\ anchor' = anchor + 1
    /\ UNCHANGED <<swaps, transfers, matched_timestamps, candidates, todo, pos, names,
                   tsVars, newVars, exVars, lutVars, sysVars>>

Return ==
    /\ pc = "anchor" /\ anchor > Len(swaps)
    /\ pc' = "returned"
    /\ UNCHANGED <<swaps, transfers, anchor, matched_timestamps, sandwiches,
                   candidates, todo, pos, names, tsVars, newVars, exVars, lutVars, sysVars>>

\* insert_sandwiches: the name hashed into the id of a sandwich
RECURSIVE to_le_bytes_n(_, _)
to_le_bytes_n(x, n) ==
    IF n = 0 THEN <<>> ELSE <<x % 256>> \o to_le_bytes_n(x \div 256, n - 1)

to_le_bytes(x) == to_le_bytes_n(x, 8)

RECURSIVE IdBytes(_)
IdBytes(sq) ==
    IF Len(sq) = 0 THEN <<>> ELSE to_le_bytes(Head(sq).id) \o IdBytes(Tail(sq))

\* a name taking the victims before the backrun
name_victim_first(s) ==
    IdBytes(s.frontrun) \o IdBytes(s.victim) \o IdBytes(s.backrun)
        \o IdBytes(s.transfers)

\* the name: ids of the frontrun, backrun, victim swaps, then the transfers
sandwich_name(s) ==
    IdBytes(s.frontrun) \o IdBytes(s.backrun) \o IdBytes(s.victim)
        \o IdBytes(s.transfers)

\* the v5 UUID is the hash of the namespace and the name
Uuid_new_v5(namespace, name) == [namespace |-> namespace, name |-> name]

insert_sandwiches ==
    /\ pc = "returned"
    /\ names' = [x \in 1..Len(sandwiches) |->
                    Uuid_new_v5("NAMESPACE_DNS", sandwich_name(sandwiches[x]))]
    /\ pc' = "inserted"
    /\ UNCHANGED <<swaps, transfers, anchor, matched_timestamps, sandwiches,
                   candidates, todo, pos, tsVars, newVars, exVars, lutVars, sysVars>>

-----------------------------------------------------------------------------
(* SpecDetect: detect runs over one sorted list of swaps, then the         *)
(* sandwiches are inserted.                                                *)

\* the k-th event of the input: ids in insertion order, timestamps increasing
\* through the slot, the inclusion order and the inner instruction index
SwapId(k) == 253 + k
TransferId(k) == 509 + k
Timeline(k) ==
    Timestamp((k - 1) \div 4, ((k - 1) \div 2) % 2, 0,
              IF (k - 1) % 2 = 0 THEN NoneOpt ELSE Some(0))
PlaceSwaps(sq) ==
    [k \in 1..Len(sq) |-> [sq[k] EXCEPT !.id = SwapId(k), !.ts = Timeline(k)]]
PlaceTransfers(sq) ==
    [k \in 1..Len(sq) |-> [sq[k] EXCEPT !.id = TransferId(k), !.ts = Timeline(k)]]

\* lists varying in direction and wrapper
DetectSwaps ==
    {NewSwap(p, w, 1, 1, "A1", "A1") :
        p \in {P0, reverse(P0)}, w \in {None, W1, JUP_V6_PROGRAM_ID}}
StructList(sw) ==
    \E n \in 0..MaxSwaps : \E q \in Tuples(DetectSwaps, n) : sw = PlaceSwaps(q)

\* lists with swaps of a second pool among those of the first
PoolSwaps ==
    {NewSwap(P0, W1, 1, 1, "A1", "A1"), NewSwap(P0, None, 1, 1, "A1", "A1"),
     NewSwap(reverse(P0), W1, 1, 1, "A1", "A1"),
     NewSwap(TradePair("Y", Mints[1], Mints[2]), W1, 1, 1, "A1", "A1")}
PoolList(sw) ==
    \E n \in 0..MaxSwaps : \E q \in Tuples(PoolSwaps, n) : sw = PlaceSwaps(q)

\* lists in which consecutive swaps share a timestamp, as the swaps of the two
\* passes over one two-hop instruction do
TwinSwaps ==
    {NewSwap(P0, W1, 1, 1, "A1", "A1"), NewSwap(P0, None, 1, 1, "A1", "A1"),
     NewSwap(reverse(P0), W1, 1, 1, "A1", "A1")}
PlaceTwins(sq) ==
    [k \in 1..Len(sq) |->
        [sq[k] EXCEPT !.id = SwapId(k), !.ts = Timeline((k + 1) \div 2)]]
TwinList(sw) ==
    \E n \in 2..MaxSwaps : \E q \in Tuples(TwinSwaps, n) : sw = PlaceTwins(q)

\* frontruns, one victim, backruns, varying in the amounts between the least
\* and the largest
DetectAmounts == {1, MaxAmount}
DetectFront == {NewSwap(P0, W1, ia, oa, "A1", "A1") : ia, oa \in DetectAmounts}
DetectBack == {NewSwap(reverse(P0), W1, ia, oa, "A1", "A1") : ia, oa \in DetectAmounts}
ValueList(sw) ==
    \E l \in RunSplits :
        \E F \in Tuples(DetectFront, l[1]), B \in Tuples(DetectBack, l[2]) :
            sw = PlaceSwaps(F \o OneVictim \o B)

\* the same runs of a bot that calls the pool directly, without a wrapper
DirectFront == {NewSwap(P0, None, ia, oa, "A1", "A1") : ia, oa \in DetectAmounts}
DirectBack == {NewSwap(reverse(P0), None, ia, oa, "A1", "A1") : ia, oa \in DetectAmounts}
DirectList(sw) ==
    \E l \in RunSplits :
        \E F \in Tuples(DirectFront, l[1]), B \in Tuples(DirectBack, l[2]) :
            sw = PlaceSwaps(F \o OneVictim \o B)

\* frontruns, one victim, backruns, varying in the accounts and the transfers
FundsList(sw, tr) ==
    \E l \in RunSplits, n \in 0..MaxTransfers :
        \E F \in Tuples(FundsFront, l[1]), B \in Tuples(FundsBack, l[2]),
           T \in Tuples(TransferChoices, n) :
            /\ sw = PlaceSwaps(F \o OneVictim \o B)
            /\ tr = PlaceTransfers(T)

\* a frontrun, a victim and a backrun, the runs under each wrapper
Wrappers == {None, W1, JUP_V6_PROGRAM_ID, JUP_V4_PROGRAM_ID, DFLOW_PROGRAM_ID}
WrapperList(sw) ==
    \E w \in Wrappers :
        sw = PlaceSwaps(<<NewSwap(P0, w, 1, 1, "A1", "A1")>> \o OneVictim
                            \o <<NewSwap(reverse(P0), w, 1, 1, "A1", "A1")>>)

\* three bots W1, W2, W3 around the swaps of users on one pool: every
\* sublist of the base list, in its order
W2 == "W2"
W3 == "W3"
CrossBase ==
    <<NewSwap(P0, W3, 1, 1, "A1", "A1"), NewSwap(P0, W2, 1, 1, "A1", "A1"),
      NewSwap(P0, W1, 1, 1, "A1", "A1"), NewSwap(reverse(P0), W3, 1, 1, "A1", "A1"),
      NewSwap(P0, None, 1, 1, "A1", "A1"), NewSwap(reverse(P0), W2, 1, 1, "A1", "A1"),
      NewSwap(P0, None, 1, 1, "A1", "A1"), NewSwap(reverse(P0), W1, 1, 1, "A1", "A1")>>
RECURSIVE Pick(_, _, _)
Pick(base, S, x) ==
    IF x > Len(base) THEN <<>>
    ELSE (IF x \in S THEN <<base[x]>> ELSE <<>>) \o Pick(base, S, x + 1)
CrossList(sw) ==
    \E S \in SUBSET (1..Len(CrossBase)) : sw = PlaceSwaps(Pick(CrossBase, S, 1))

InitDetect ==
    /\ \/ (StructList(swaps) /\ transfers = <<>>)
       \/ (CrossList(swaps) /\ transfers = <<>>)
       \/ (DirectList(swaps) /\ transfers = <<>>)
       \/ (PoolList(swaps) /\ transfers = <<>>)
       \/ (TwinList(swaps) /\ transfers = <<>>)
       \/ (ValueList(swaps) /\ transfers = <<>>)
       \/ FundsList(swaps, transfers)
       \/ (WrapperList(swaps) /\ transfers = <<>>)
    /\ pc = "anchor" /\ anchor = 1
    /\ matched_timestamps = {} /\ sandwiches = <<>> /\ candidates = <<>>
    /\ todo = {} /\ pos = NoPos /\ names = <<>>
    /\ TsIdle /\ NewIdle /\ ExIdle /\ LutIdle /\ SysIdle

NextDetect ==
    \/ SkipAnchor
    \/ StartAnchor
    \/ SkipBucket
    \/ EnterBucket
    \/ TryTuple
    \/ FinishAnchor
    \/ Return
    \/ insert_sandwiches

SpecDetect == InitDetect /\ [][NextDetect]_vars

-----------------------------------------------------------------------------
(* Extraction: the finders run over one transaction and stamp its events.  *)

WHIRLPOOL_PUBKEY == "whirLbMiicVdio4qvUfM5KAg6Ct8VwpYzGff3uctyCc"
TOKEN_PROGRAM_ID == "TokenkegQfeZyiNwAJbNbGKPFXCWuBvf9Ss623VQ5DA"

\* an instruction: its program and what its data says; a token transfer is
\* named by the leg of the enclosing swap its accounts match
Ix(program_id, data) == [program_id |-> program_id, data |-> data]

\* the Whirlpool finders of the pass list, each with the discriminants its
\* find_swaps hands to find_swaps_generic and the account index of its pool
SwapFinders ==
    <<[name |-> "WhirlpoolSwapFinder", discriminants |-> <<"swap", "swapV2">>,
       amm |-> 2],
      [name |-> "WhirlpoolTwoHopSwapFinder1", discriminants |-> <<"twoHopSwap">>,
       amm |-> 2],
      [name |-> "WhirlpoolTwoHopSwapFinder2", discriminants |-> <<"twoHopSwap">>,
       amm |-> 3],
      [name |-> "WhirlpoolTwoHopSwapV2Finder1", discriminants |-> <<"twoHopSwapV2">>,
       amm |-> 0],
      [name |-> "WhirlpoolTwoHopSwapV2Finder2", discriminants |-> <<"twoHopSwapV2">>,
       amm |-> 1]>>

ixs_to_skip == 0

token_transferred_inner(inner_ix) ==
    IF inner_ix.program_id = TOKEN_PROGRAM_ID THEN Some(inner_ix.data) ELSE NoneOpt

\* the first j >= i + ixs_to_skip (0-based) by which both legs have been seen,
\* or -1
RECURSIVE BothLegsBy(_, _, _, _)
BothLegsBy(inner, j, seen_in, seen_out) ==
    IF j >= Len(inner) THEN -1
    ELSE LET t == token_transferred_inner(inner[j + 1])
             now_in == seen_in \/ (t.some /\ t.val = "transferIn")
             now_out == seen_out \/ (t.some /\ t.val = "transferOut")
         IN IF now_in /\ now_out THEN j
            ELSE BothLegsBy(inner, j + 1, now_in, now_out)

\* the scan of the inner instructions for swaps invoked by another program
RECURSIVE InnerSwaps(_, _, _, _, _, _)
InnerSwaps(f, inner, program_id, discriminant, i, next_logical_ix) ==
    IF i >= Len(inner) THEN <<>>
    ELSE IF \/ i < next_logical_ix
            \/ inner[i + 1].program_id # program_id
            \/ inner[i + 1].data # discriminant
    THEN InnerSwaps(f, inner, program_id, discriminant, i + 1, next_logical_ix)
    ELSE LET j == BothLegsBy(inner, i + ixs_to_skip, FALSE, FALSE)
         IN <<[finder |-> f.name, amm |-> f.amm, inner_ix_index |-> Some(i)]>>
                \o InnerSwaps(f, inner, program_id, discriminant, i + 1,
                              IF j >= 0 THEN j + 1 ELSE next_logical_ix)

find_swaps_generic(f, ix, inner_ixs, program_id, discriminant) ==
    IF Len(inner_ixs) <= ixs_to_skip THEN <<>>
    ELSE IF ix.program_id = program_id
    THEN IF ix.data # discriminant THEN <<>>
         ELSE <<[finder |-> f.name, amm |-> f.amm, inner_ix_index |-> NoneOpt]>>
    ELSE InnerSwaps(f, inner_ixs, program_id, discriminant, 0, 0)

\* find_swaps of a Whirlpool finder: one generic search per discriminant
RECURSIVE find_swaps(_, _, _, _)
find_swaps(f, ix, inner_ixs, d) ==
    IF d > Len(f.discriminants) THEN <<>>
    ELSE find_swaps_generic(f, ix, inner_ixs, WHIRLPOOL_PUBKEY, f.discriminants[d])
             \o find_swaps(f, ix, inner_ixs, d + 1)

Stamp(kind, found, s, tx, i) ==
    [x \in 1..Len(found) |->
        [kind |-> kind, finder |-> found[x].finder, amm |-> found[x].amm,
         ts |-> Timestamp(s, tx.index, i, found[x].inner_ix_index)]]

\* only the instructions that have inner instructions are searched for swaps
RECURSIVE find_swaps_in_tx(_, _, _, _)
find_swaps_in_tx(f, s, tx, i) ==
    IF i >= Len(tx.ixs) THEN <<>>
    ELSE (IF tx.ixs[i + 1].has_inner
          THEN Stamp("Swap", find_swaps(f, tx.ixs[i + 1], tx.ixs[i + 1].inner, 1),
                     s, tx, i)
          ELSE <<>>)
             \o find_swaps_in_tx(f, s, tx, i + 1)

\* TokenProgramTransferFinder: the instruction itself, else its inner ones
RECURSIVE InnerTransfers(_, _)
InnerTransfers(inner, i) ==
    IF i >= Len(inner) THEN <<>>
    ELSE (IF inner[i + 1].program_id = TOKEN_PROGRAM_ID
          THEN <<[finder |-> "TokenProgramTransferFinder", amm |-> -1,
                  inner_ix_index |-> Some(i)]>>
          ELSE <<>>)
             \o InnerTransfers(inner, i + 1)

find_transfers(ix, inner_ixs) ==
    IF ix.program_id = TOKEN_PROGRAM_ID
    THEN <<[finder |-> "TokenProgramTransferFinder", amm |-> -1,
            inner_ix_index |-> NoneOpt]>>
    ELSE InnerTransfers(inner_ixs, 0)

RECURSIVE find_transfers_in_tx(_, _, _)
find_transfers_in_tx(s, tx, i) ==
    IF i >= Len(tx.ixs) THEN <<>>
    ELSE Stamp("Transfer", find_transfers(tx.ixs[i + 1], tx.ixs[i + 1].inner), s, tx, i)
             \o find_transfers_in_tx(s, tx, i + 1)

\* one swap-finder pass of the list, in the order of the list
RunSwapFinder ==
    /\ finder \in 1..Len(SwapFinders)
    /\ tx_events' = tx_events \o find_swaps_in_tx(SwapFinders[finder], block_slot, raw_tx, 0)
    /\ finder' = finder + 1
    /\ UNCHANGED <<block_slot, raw_tx, tsVars, newVars, detVars, lutVars, sysVars>>

\* then the transfers are appended
RunTransferFinder ==
    /\ finder = Len(SwapFinders) + 1
    /\ tx_events' = tx_events \o find_transfers_in_tx(block_slot, raw_tx, 0)
    /\ finder' = finder + 1
    /\ UNCHANGED <<block_slot, raw_tx, tsVars, newVars, detVars, lutVars, sysVars>>

\* the transactions extracted: plain transfers around one instruction of any
\* program with any inner instructions
InnerChoices ==
    {Ix(WHIRLPOOL_PUBKEY, "swap"), Ix(WHIRLPOOL_PUBKEY, "twoHopSwap"),
     Ix(TOKEN_PROGRAM_ID, "transferIn"), Ix(TOKEN_PROGRAM_ID, "transferOut")}
OuterChoices ==
    InnerChoices \cup {Ix(WHIRLPOOL_PUBKEY, "twoHopSwapV2"), Ix(JUP_V6_PROGRAM_ID, "route")}
TopIx(ix, has_inner, inner) ==
    [program_id |-> ix.program_id, data |-> ix.data, has_inner |-> has_inner,
     inner |-> inner]
PlainIx == TopIx(Ix(TOKEN_PROGRAM_ID, "transferIn"), FALSE, <<>>)
RawTx(tx) ==
    \E n \in 1..MaxIxs, p \in 1..MaxIxs, o \in OuterChoices, h \in BOOLEAN,
       l \in 0..MaxInner, index \in Fields :
        /\ p <= n
        /\ \E inner \in Tuples(InnerChoices, l) :
            /\ (~h => l = 0)
            /\ tx = [index |-> index,
                     ixs |-> [x \in 1..n |-> IF x = p THEN TopIx(o, h, inner)
                                             ELSE PlainIx]]

InitExtract ==
    /\ block_slot \in Fields /\ RawTx(raw_tx) /\ tx_events = <<>> /\ finder = 1
    /\ TsIdle /\ NewIdle /\ DetIdle /\ LutIdle /\ SysIdle

NextExtract == RunSwapFinder \/ RunTransferFinder

SpecExtract == InitExtract /\ [][NextExtract]_vars

-----------------------------------------------------------------------------
(* The lookup-table cache of the event processor.  One task takes the      *)
(* messages of the stream in order; a block message starts one decode per  *)
(* transaction and all of them are joined before the next message.         *)

Keys == {"K1", "K2"}
CacheLen(entry) == IF entry.some THEN entry.val ELSE 0

\* a table on chain is extended; the stream carries the account update
ExtendLut ==
    /\ lpc \in {"recv", "join"}
    /\ Len(stream) < MaxStream
    /\ \E k \in Keys :
        /\ chain[k] < MaxLutLen
        /\ chain' = [chain EXCEPT ![k] = chain[k] + 1]
        /\ stream' = Append(stream, [type |-> "Account", key |-> k,
                                     len |-> chain[k] + 1, txs |-> <<>>])
    /\ UNCHANGED <<lut_cache, lpc, futs, blocks, tsVars, newVars, detVars, exVars, sysVars>>

\* a block is produced; each of its transactions looks up one table
SendBlock ==
    /\ lpc \in {"recv", "join"}
    /\ Len(stream) < MaxStream /\ blocks < MaxBlocks
    /\ \E n \in 1..MaxTxs : \E txs \in Tuples(Keys, n) :
        stream' = Append(stream, [type |-> "Block", key |-> None, len |-> 0,
                                  txs |-> txs])
    /\ blocks' = blocks + 1
    /\ UNCHANGED <<lut_cache, chain, lpc, futs, tsVars, newVars, detVars, exVars, sysVars>>

\* UpdateOneof::Account when the cached table is longer: the update is dropped
AccountRefused ==
    /\ lpc = "recv" /\ Len(stream) > 0 /\ Head(stream).type = "Account"
    /\ lut_cache[Head(stream).key].some
    /\ lut_cache[Head(stream).key].val > Head(stream).len
    /\ stream' = Tail(stream)
    /\ UNCHANGED <<lut_cache, chain, lpc, futs, blocks, tsVars, newVars, detVars,
                   exVars, sysVars>>

\* UpdateOneof::Account otherwise: the table is cached
AccountInserted ==
    /\ lpc = "recv" /\ Len(stream) > 0 /\ Head(stream).type = "Account"
    /\ ~(/\ lut_cache[Head(stream).key].some
         /\ lut_cache[Head(stream).key].val > Head(stream).len)
    /\ lut_cache' = [lut_cache EXCEPT ![Head(stream).key] = Some(Head(stream).len)]
    /\ stream' = Tail(stream)
    /\ UNCHANGED <<chain, lpc, futs, blocks, tsVars, newVars, detVars, exVars, sysVars>>

\* UpdateOneof::Block: join_all polls each decompile_tx up to its first await;
\* a decode whose table is cached has none, the others have sent their request
BlockReceived ==
    /\ lpc = "recv" /\ Len(stream) > 0 /\ Head(stream).type = "Block"
    /\ futs' = [t \in 1..Len(Head(stream).txs) |->
                   [key |-> Head(stream).txs[t],
                    st |-> IF lut_cache[Head(stream).txs[t]].some THEN "ready"
                           ELSE "requested",
                    len |-> 0]]
    /\ lpc' = "join"
    /\ stream' = Tail(stream)
    /\ UNCHANGED <<lut_cache, chain, blocks, tsVars, newVars, detVars, exVars, sysVars>>

\* the RPC node answers get_multiple_accounts of one decode from the chain
RpcServed ==
    /\ lpc = "join"
    /\ \E t \in 1..Len(futs) :
        /\ futs[t].st = "requested"
        /\ futs' = [futs EXCEPT ![t].st = "answered", ![t].len = chain[futs[t].key]]
    /\ UNCHANGED <<lut_cache, chain, stream, lpc, blocks, tsVars, newVars, detVars,
                   exVars, sysVars>>

\* the answer reaches its decode, which caches the table it got
decompile_tx_resumed ==
    /\ lpc = "join"
    /\ \E t \in 1..Len(futs) :
        /\ futs[t].st = "answered"
        /\ lut_cache' = [lut_cache EXCEPT ![futs[t].key] = Some(futs[t].len)]
        /\ futs' = [futs EXCEPT ![t].st = "ready"]
    /\ UNCHANGED <<chain, stream, lpc, blocks, tsVars, newVars, detVars, exVars, sysVars>>

\* every decode of the block is ready: the loop returns to the stream
BlockJoined ==
    /\ lpc = "join"
    /\ \A t \in 1..Len(futs) : futs[t].st = "ready"
    /\ futs' = <<>>
    /\ lpc' = "recv"
    /\ UNCHANGED <<lut_cache, chain, stream, blocks, tsVars, newVars, detVars, exVars, sysVars>>

InitLut ==
    /\ lut_cache = [k \in Keys |-> NoneOpt]
    /\ chain \in [Keys -> 0..MaxLutLen]
    /\ stream = <<>> /\ lpc = "recv" /\ futs = <<>> /\ blocks = 0
    /\ TsIdle /\ NewIdle /\ DetIdle /\ ExIdle /\ SysIdle

NextLut ==
    \/ ExtendLut
    \/ SendBlock
    \/ AccountRefused
    \/ AccountInserted
    \/ BlockReceived
    \/ RpcServed
    \/ decompile_tx_resumed
    \/ BlockJoined

SpecLut == InitLut /\ [][NextLut]_vars

-----------------------------------------------------------------------------
(* The streaming drivers: the event processor task with its block stream,  *)
(* the batch channel, the indexer's insert tasks and the realtime          *)
(* detector, which shares only the store with the indexer.                 *)

LEADER_GROUP_SIZE == 4
\* the first slot of the streams: the smallest slot for which the start of
\* the lagged group, slot - 2 * LEADER_GROUP_SIZE + 1, does not underflow
FirstSlot == 2 * LEADER_GROUP_SIZE
BlockSlots == FirstSlot .. (FirstSlot + MaxPipeBlocks - 1)
\* the panics a block can raise in the event processor task
DecodePanics == {"lut not found", "index out of bounds"}
SeqSet(s) == {s[i] : i \in 1..Len(s)}
\* the batches that exist and are not committed
InFlight == senders \cup SeqSet(channel) \cup inserts
GroupOf(start_slot) == start_slot .. (start_slot + LEADER_GROUP_SIZE - 1)
\* a window that ends at the slot of the ping
start_slot_no_lag(slot) == slot - LEADER_GROUP_SIZE + 1
\* the window of the task spawned at the ping of slot: the leader group
\* that ended LEADER_GROUP_SIZE slots before
start_slot_of(slot) == slot - 2 * LEADER_GROUP_SIZE + 1
end_slot_of(slot) == slot - LEADER_GROUP_SIZE

\* a block message: every decode of the block succeeds under join_all, the
\* events are collected and a detached task is spawned to send the batch
BlockProcessed ==
    /\ ep = "streaming" /\ next_block \in BlockSlots
    /\ senders' = senders \cup {next_block}
    /\ next_block' = next_block + 1
    /\ UNCHANGED <<ep, channel, decode_failed, subscriptions, indexer, inserts,
                   store, lost, rtVars, offVars, tsVars, newVars, detVars, exVars,
                   lutVars,
                   finderVars>>

\* a block message of which one transaction panics: its lookup table is
\* missing from the cache after the RPC answer (expect), or a stake
\* instruction has fewer accounts than the index read; the panic unwinds
\* the event processor task, which drops its sender; no batch is sent
BlockPanics ==
    /\ ep = "streaming" /\ next_block \in BlockSlots
    /\ \E cause \in DecodePanics :
         decode_failed' = decode_failed \cup {[slot |-> next_block, panic |-> cause]}
    /\ ep' = "panicked"
    /\ next_block' = next_block + 1
    /\ UNCHANGED <<senders, channel, subscriptions, indexer, inserts, store, lost,
                   rtVars, offVars, tsVars, newVars, detVars, exVars, lutVars,
                   finderVars>>

\* the block stream yields an error or ends: the loop is left and the task ends
StreamEnds ==
    /\ ep = "streaming"
    /\ ep' = "ended"
    /\ UNCHANGED <<next_block, senders, channel, decode_failed, subscriptions,
                   indexer, inserts, store, lost, rtVars, offVars, tsVars, newVars,
                   detVars, exVars, lutVars,
                   finderVars>>

\* a spawned send task: sender.send(batch).await completes once the channel has room
SendAccepted(s) ==
    /\ s \in senders /\ Len(channel) < ChannelCap
    /\ channel' = Append(channel, s)
    /\ senders' = senders \ {s}
    /\ UNCHANGED <<ep, next_block, decode_failed, subscriptions, indexer, inserts,
                   store, lost, rtVars, offVars, tsVars, newVars, detVars, exVars,
                   lutVars,
                   finderVars>>

\* the indexer loop: receiver.recv() yields a batch, a connection is taken
\* and a detached insert task is spawned
BatchReceived ==
    /\ indexer = "recv" /\ channel # <<>>
    /\ inserts' = inserts \cup {Head(channel)}
    /\ channel' = Tail(channel)
    /\ UNCHANGED <<ep, next_block, senders, decode_failed, subscriptions, indexer,
                   store, lost, rtVars, offVars, tsVars, newVars, detVars, exVars,
                   lutVars,
                   finderVars>>

\* an insert task: the statements run and the transaction commits
InsertCommitted(s) ==
    /\ s \in inserts
    /\ store' = store \cup {s}
    /\ inserts' = inserts \ {s}
    /\ UNCHANGED <<ep, next_block, senders, channel, decode_failed, subscriptions,
                   indexer, lost, rtVars, offVars, tsVars, newVars, detVars, exVars,
                   lutVars,
                   finderVars>>

\* an insert task of which a statement or the commit fails: unwrap panics,
\* the task ends, the transaction is rolled back and the batch is gone
InsertFails(s) ==
    /\ s \in inserts
    /\ lost' = lost \cup {s}
    /\ inserts' = inserts \ {s}
    /\ UNCHANGED <<ep, next_block, senders, channel, decode_failed, subscriptions,
                   indexer, store, rtVars, offVars, tsVars, newVars, detVars, exVars,
                   lutVars,
                   finderVars>>

\* a receiver that sees the channel closed as soon as the task is over
ChannelClosedEarly ==
    /\ indexer = "recv" /\ ep \in {"ended", "panicked"}
    /\ channel = <<>>
    /\ indexer' = "sleeping"
    /\ UNCHANGED <<ep, next_block, senders, channel, decode_failed, subscriptions,
                   inserts, store, lost, rtVars, offVars, tsVars, newVars, detVars,
                   exVars, lutVars, finderVars>>

\* receiver.recv() yields None: the event processor task is over, every
\* send task has finished and the channel is drained; indexer() returns
\* and indexer_loop sleeps
ChannelClosed ==
    /\ indexer = "recv" /\ ep \in {"ended", "panicked"}
    /\ senders = {} /\ channel = <<>>
    /\ indexer' = "sleeping"
    /\ UNCHANGED <<ep, next_block, senders, channel, decode_failed, subscriptions,
                   inserts, store, lost, rtVars, offVars, tsVars, newVars, detVars,
                   exVars, lutVars,
                   finderVars>>

\* indexer_loop calls indexer() again: a new event processor task, a new
\* channel and a fresh subscription request
Reconnect ==
    /\ indexer = "sleeping" /\ subscriptions < MaxSubscriptions
    /\ indexer' = "recv" /\ ep' = "streaming"
    /\ subscriptions' = subscriptions + 1
    /\ UNCHANGED <<next_block, senders, channel, decode_failed, inserts, store,
                   lost, rtVars, offVars, tsVars, newVars, detVars, exVars, lutVars,
                   finderVars>>

\* the realtime detector: a block-meta message; for the last slot of a
\* leader group a detached detection task is spawned for the group that
\* ended LEADER_GROUP_SIZE slots before
MetaReceived ==
    /\ rt = "streaming" /\ next_meta <= meta_last
    /\ detections' = IF next_meta % 4 = 3
                        THEN detections \cup {start_slot_of(next_meta)}
                        ELSE detections
    /\ dispatched' = IF next_meta % 4 = 3
                        THEN Append(dispatched, [start_slot |-> start_slot_of(next_meta),
                                                 end_slot |-> end_slot_of(next_meta)])
                        ELSE dispatched
    /\ next_meta' = next_meta + 1
    /\ UNCHANGED <<rt, meta_last, reads, aborted, pipeVars, offVars, tsVars, newVars,
                   detVars, exVars, lutVars,
                   finderVars>>

\* a detection task: get_events reads the group from the store, detect
\* runs on what was read and the sandwiches are inserted
DetectionTask(start_slot) ==
    /\ start_slot \in detections
    /\ reads' = reads \cup {[start_slot |-> start_slot,
                             events |-> store \cap GroupOf(start_slot),
                             uncommitted |-> InFlight \cap GroupOf(start_slot)]}
    /\ detections' = detections \ {start_slot}
    /\ UNCHANGED <<rt, next_meta, meta_last, aborted, dispatched, pipeVars, offVars, tsVars,
                   newVars, detVars, exVars, lutVars,
                   finderVars>>

\* the block-meta stream yields an error or ends: the loop is left, main
\* returns and the runtime is dropped with the tasks that have not run
MetaStreamEnds ==
    /\ rt = "streaming"
    /\ rt' = "exited"
    /\ aborted' = aborted \cup detections
    /\ detections' = {}
    /\ UNCHANGED <<next_meta, meta_last, reads, dispatched, pipeVars, offVars, tsVars, newVars,
                   detVars, exVars, lutVars,
                   finderVars>>

\* the offline detector: main spawns one task for the next chunk of slots
SpawnChunk ==
    /\ off_pc = "spawning" /\ next_chunk < chunk_count
    /\ handles' = handles \cup {next_chunk}
    /\ next_chunk' = next_chunk + 1
    /\ UNCHANGED <<off_pc, chunk_count, pipeVars, rtVars, tsVars, newVars, detVars,
                   exVars, lutVars,
                   finderVars>>

\* every chunk has its task: main awaits join_all(handles)
AllSpawned ==
    /\ off_pc = "spawning" /\ next_chunk = chunk_count
    /\ off_pc' = "joining"
    /\ UNCHANGED <<next_chunk, chunk_count, handles, pipeVars, rtVars, tsVars,
                   newVars, detVars, exVars, lutVars,
                   finderVars>>

\* a chunk task: get_events for the chunk, then detect on each group of it
ChunkTask(c) ==
    /\ c \in handles
    /\ handles' = handles \ {c}
    /\ UNCHANGED <<off_pc, next_chunk, chunk_count, pipeVars, rtVars, tsVars,
                   newVars, detVars, exVars, lutVars,
                   finderVars>>

\* join_all returns when every task has finished
JoinAll ==
    /\ off_pc = "joining" /\ handles = {}
    /\ off_pc' = "done"
    /\ UNCHANGED <<next_chunk, chunk_count, handles, pipeVars, rtVars, tsVars,
                   newVars, detVars, exVars, lutVars,
                   finderVars>>

(* SpecPipeline: the indexer and the realtime detector run side by side on *)
(* one store; the detector meets the last two slots of the second group.   *)

InitPipeline ==
    /\ ep = "streaming" /\ next_block = FirstSlot /\ senders = {} /\ channel = <<>>
    /\ decode_failed = {} /\ subscriptions = 1
    /\ indexer = "recv" /\ inserts = {} /\ store = {} /\ lost = {}
    /\ rt = "streaming" /\ meta_last = FirstSlot + 2 * LEADER_GROUP_SIZE - 1
    /\ next_meta = meta_last - 1
    /\ detections = {} /\ reads = {} /\ aborted = {} /\ dispatched = <<>>
    /\ OffIdle /\ TrIdle /\ LegIdle /\ DecIdle
    /\ TsIdle /\ NewIdle /\ DetIdle /\ ExIdle /\ LutIdle

NextPipeline ==
    \/ BlockProcessed
    \/ BlockPanics
    \/ StreamEnds
    \/ \E s \in senders : SendAccepted(s)
    \/ BatchReceived
    \/ \E s \in inserts : InsertCommitted(s)
    \/ \E s \in inserts : InsertFails(s)
    \/ ChannelClosed
    \/ Reconnect
    \/ MetaReceived
    \/ \E g \in detections : DetectionTask(g)
    \/ MetaStreamEnds

SpecPipeline == InitPipeline /\ [][NextPipeline]_vars

\* every spawned task and every loop of the drivers is scheduled by the runtime
FairPipeline ==
    /\ \A s \in BlockSlots : WF_vars(SendAccepted(s))
    /\ \A s \in BlockSlots : WF_vars(InsertCommitted(s) \/ InsertFails(s))
    /\ WF_vars(BatchReceived) /\ WF_vars(ChannelClosed) /\ WF_vars(Reconnect)
    /\ \A g \in FirstSlot .. (FirstSlot + 2 * LEADER_GROUP_SIZE - 1) :
         WF_vars(DetectionTask(g))

SpecPipelineFair == InitPipeline /\ [][NextPipeline]_vars /\ FairPipeline

(* SpecDelivery: the event processor and the indexer alone, every task and *)
(* loop scheduled by the runtime.                                          *)

InitDelivery ==
    /\ ep = "streaming" /\ next_block = FirstSlot /\ senders = {} /\ channel = <<>>
    /\ decode_failed = {} /\ subscriptions = 1
    /\ indexer = "recv" /\ inserts = {} /\ store = {} /\ lost = {}
    /\ RtIdle /\ OffIdle /\ TrIdle /\ LegIdle /\ DecIdle
    /\ TsIdle /\ NewIdle /\ DetIdle /\ ExIdle /\ LutIdle

NextDelivery ==
    \/ BlockProcessed
    \/ BlockPanics
    \/ StreamEnds
    \/ \E s \in senders : SendAccepted(s)
    \/ BatchReceived
    \/ \E s \in inserts : InsertCommitted(s)
    \/ \E s \in inserts : InsertFails(s)
    \/ ChannelClosed
    \/ Reconnect

FairDelivery ==
    /\ \A s \in BlockSlots : WF_vars(SendAccepted(s))
    /\ \A s \in BlockSlots : WF_vars(InsertCommitted(s) \/ InsertFails(s))
    /\ WF_vars(BatchReceived) /\ WF_vars(ChannelClosed) /\ WF_vars(Reconnect)

SpecDelivery == InitDelivery /\ [][NextDelivery]_vars /\ FairDelivery

(* SpecTasks: a detector alone, started with enough work for MaxTasks      *)
(* detection tasks: the realtime one on a long block-meta stream, the      *)
(* offline one on a slot range of chunk_count chunks.                      *)

InitTasks ==
    /\ \/ /\ rt = "streaming" /\ next_meta = FirstSlot
          /\ meta_last = FirstSlot + 4 * MaxTasks - 1
          /\ OffIdle
       \/ /\ off_pc = "spawning" /\ next_chunk = 0 /\ chunk_count \in {1, MaxTasks}
          /\ handles = {}
          /\ rt = "idle" /\ next_meta = 0 /\ meta_last = 0
    /\ detections = {} /\ reads = {} /\ aborted = {} /\ dispatched = <<>>
    /\ PipeIdle /\ TrIdle /\ LegIdle /\ DecIdle
    /\ TsIdle /\ NewIdle /\ DetIdle /\ ExIdle /\ LutIdle

NextTasks ==
    \/ MetaReceived
    \/ \E g \in detections : DetectionTask(g)
    \/ MetaStreamEnds
    \/ SpawnChunk
    \/ AllSpawned
    \/ \E c \in handles : ChunkTask(c)
    \/ JoinAll

SpecTasks == InitTasks /\ [][NextTasks]_vars

(* SpecRealtime: the realtime detector alone on MaxPings pings of          *)
(* consecutive slots, from the first slot whose window does not underflow. *)

FirstPing == 2 * LEADER_GROUP_SIZE - 1

InitRealtime ==
    /\ rt = "streaming" /\ next_meta = FirstPing
    /\ meta_last = FirstPing + MaxPings - 1
    /\ detections = {} /\ reads = {} /\ aborted = {} /\ dispatched = <<>>
    /\ OffIdle /\ PipeIdle /\ TrIdle /\ LegIdle /\ DecIdle
    /\ TsIdle /\ NewIdle /\ DetIdle /\ ExIdle /\ LutIdle

NextRealtime ==
    \/ MetaReceived
    \/ \E g \in detections : DetectionTask(g)
    \/ MetaStreamEnds

SpecRealtime == InitRealtime /\ [][NextRealtime]_vars

-----------------------------------------------------------------------------
(* The transfer finders on one top-level instruction with its inner        *)
(* instructions: accounts, program ids and the first data byte.            *)

SYSTEM_PROGRAM_ID == "11111111111111111111111111111111"
TOKEN_2022_PROGRAM_ID == "TokenzQdBNbLqP5VEhdkAS6EPFLC1PHnBqCXEpPxuEb"
STAKE_PROGRAM_ID == "Stake11111111111111111111111111111111111111"
WSOL_MINT == "So11111111111111111111111111111111111111112"

\* iter().enumerate() with early returns: the records made of the 0-based
\* positions below n that are kept, in order
FilterMap(n, Keep(_), Make(_)) ==
    LET kept == SelectSeq([x \in 1..n |-> x - 1], Keep)
    IN [x \in 1..Len(kept) |-> Make(kept[x])]

\* the key of an instruction's account: accounts[i] of a top-level
\* instruction is a pubkey, accounts[i] of an inner one indexes account_keys
At(s, i) == s[i + 1]

FoundTransfer(outer_program, program, authority, mint, input_ata, output_ata, inner_ix_index) ==
    [outer_program |-> outer_program, program |-> program, authority |-> authority,
     mint |-> mint, input_ata |-> input_ata, output_ata |-> output_ata,
     inner_ix_index |-> inner_ix_index]

\* the mint of a token account, from the token balances of the meta
mint_of(pubkey, meta) ==
    IF pubkey \in DOMAIN meta.pre_token_balances
    THEN Some(meta.pre_token_balances[pubkey]) ELSE NoneOpt

\* SystemProgramTransferfinder: the index of the destination account
system_amount_and_dest_from_data(data) ==
    IF data.tag \in {0, 2, 3} THEN Some(1)
    ELSE IF data.tag = 13 THEN Some(2)
    ELSE NoneOpt

system_find_transfers(ix, inner_ixs, account_keys) ==
    IF ix.program_id = SYSTEM_PROGRAM_ID
    THEN LET d == system_amount_and_dest_from_data(ix.data)
         IN IF ~d.some \/ Len(ix.accounts) < 2 THEN <<>>
            ELSE <<FoundTransfer(None, SYSTEM_PROGRAM_ID, At(ix.accounts, 0), WSOL_MINT,
                                 At(ix.accounts, 0), At(ix.accounts, d.val), NoneOpt)>>
    ELSE LET D(i) == system_amount_and_dest_from_data(At(inner_ixs, i).data)
             From(i) == At(At(inner_ixs, i).accounts, 0)
             To(i) == At(At(inner_ixs, i).accounts, D(i).val)
             Keep(i) ==
                 /\ At(inner_ixs, i).program_id_index < Len(account_keys)
                 /\ At(account_keys, At(inner_ixs, i).program_id_index) = SYSTEM_PROGRAM_ID
                 /\ Len(At(inner_ixs, i).accounts) >= 2
                 /\ D(i).some
                 /\ From(i) < Len(account_keys) /\ To(i) < Len(account_keys)
                 /\ From(i) # To(i)
             Make(i) ==
                 FoundTransfer(ix.program_id, SYSTEM_PROGRAM_ID,
                               At(account_keys, From(i)), WSOL_MINT,
                               At(account_keys, From(i)), At(account_keys, To(i)), Some(i))
         IN FilterMap(Len(inner_ixs), Keep, Make)

\* TokenProgramTransferFinder
is_token_program(program_id) ==
    program_id = TOKEN_PROGRAM_ID \/ program_id = TOKEN_2022_PROGRAM_ID

\* (from_index, to_index, auth_index); amount_from_data is Some for the same bytes
from_to_indexs(data) ==
    IF data.tag \in {3, 7, 9, 14} THEN Some(<<0, 1, 2>>)
    ELSE IF data.tag = 12 THEN Some(<<0, 2, 3>>)
    ELSE NoneOpt

token_find_transfers(ix, inner_ixs, account_keys, meta) ==
    LET t == from_to_indexs(ix.data)
        top_from == At(ix.accounts, t.val[1])
        top_to == At(ix.accounts, t.val[2])
        top_matches ==
            /\ is_token_program(ix.program_id) /\ t.some
            /\ t.val[1] < Len(ix.accounts) /\ t.val[2] < Len(ix.accounts)
        top_mint == IF mint_of(top_from, meta).some THEN mint_of(top_from, meta)
                    ELSE mint_of(top_to, meta)
        T(i) == from_to_indexs(At(inner_ixs, i).data)
        From(i) == At(At(inner_ixs, i).accounts, T(i).val[1])
        To(i) == At(At(inner_ixs, i).accounts, T(i).val[2])
        Auth(i) == At(At(inner_ixs, i).accounts, T(i).val[3])
        Mint(i) == IF mint_of(At(account_keys, From(i)), meta).some
                   THEN mint_of(At(account_keys, From(i)), meta)
                   ELSE mint_of(At(account_keys, To(i)), meta)
        Keep(i) ==
            /\ At(inner_ixs, i).program_id_index < Len(account_keys)
            /\ is_token_program(At(account_keys, At(inner_ixs, i).program_id_index))
            /\ T(i).some
            /\ T(i).val[1] < Len(At(inner_ixs, i).accounts)
            /\ T(i).val[2] < Len(At(inner_ixs, i).accounts)
            /\ From(i) < Len(account_keys) /\ To(i) < Len(account_keys)
            /\ From(i) # To(i)
            /\ Auth(i) < Len(account_keys)
            /\ Mint(i).some
        Make(i) ==
            FoundTransfer(ix.program_id,
                          At(account_keys, At(inner_ixs, i).program_id_index),
                          At(account_keys, Auth(i)), Mint(i).val,
                          At(account_keys, From(i)), At(account_keys, To(i)), Some(i))
    IN IF top_matches /\ top_from = top_to THEN <<>>
       ELSE IF top_matches /\ top_mint.some
       THEN <<FoundTransfer(None, ix.program_id, At(ix.accounts, t.val[3]), top_mint.val,
                            top_from, top_to, NoneOpt)>>
       ELSE FilterMap(Len(inner_ixs), Keep, Make)

\* StakeProgramTransferfinder: (from, to, auth) of a Withdraw
stake_amount_and_endpoint_from_data(data) ==
    IF data.tag = 4 THEN Some(<<0, 1, 4>>) ELSE NoneOpt

stake_find_transfers(ix, inner_ixs, account_keys) ==
    IF ix.program_id = STAKE_PROGRAM_ID
    THEN LET e == stake_amount_and_endpoint_from_data(ix.data)
         IN IF ~e.some \/ Len(ix.accounts) < 2 THEN <<>>
            ELSE <<FoundTransfer(None, STAKE_PROGRAM_ID, At(ix.accounts, e.val[3]),
                                 WSOL_MINT, At(ix.accounts, e.val[1]),
                                 At(ix.accounts, e.val[2]), NoneOpt)>>
    ELSE LET E(i) == stake_amount_and_endpoint_from_data(At(inner_ixs, i).data)
             From(i) == At(At(inner_ixs, i).accounts, E(i).val[1])
             To(i) == At(At(inner_ixs, i).accounts, E(i).val[2])
             Auth(i) == At(At(inner_ixs, i).accounts, E(i).val[3])
             Keep(i) ==
                 /\ At(inner_ixs, i).program_id_index < Len(account_keys)
                 /\ At(account_keys, At(inner_ixs, i).program_id_index) = STAKE_PROGRAM_ID
                 /\ Len(At(inner_ixs, i).accounts) >= 2
                 /\ E(i).some
                 /\ From(i) < Len(account_keys) /\ To(i) < Len(account_keys)
                 /\ Auth(i) < Len(account_keys)
                 /\ From(i) # To(i)
             Make(i) ==
                 FoundTransfer(ix.program_id, STAKE_PROGRAM_ID, At(account_keys, Auth(i)),
                               WSOL_MINT, At(account_keys, From(i)),
                               At(account_keys, To(i)), Some(i))
         IN FilterMap(Len(inner_ixs), Keep, Make)

\* the three passes over the instruction, in the order of the event processor
RunTransferPass ==
    /\ tr_pass \in 1..3
    /\ LET found == CASE tr_pass = 1 ->
                            system_find_transfers(tr_in.ix, tr_in.inner, tr_in.account_keys)
                      [] tr_pass = 2 ->
                            token_find_transfers(tr_in.ix, tr_in.inner, tr_in.account_keys,
                                                 tr_in.meta)
                      [] tr_pass = 3 ->
                            stake_find_transfers(tr_in.ix, tr_in.inner, tr_in.account_keys)
       IN tr_out' = tr_out \o found
    /\ tr_pass' = tr_pass + 1
    /\ UNCHANGED <<tr_in, legVars, decVars, pipeVars, rtVars, offVars, tsVars, newVars, detVars,
                   exVars, lutVars>>

(* SpecTransfers: the passes run on a top-level transfer instruction, or   *)
(* on an instruction of another program with inner instructions.          *)

\* the account keys of the transaction: three accounts and the programs
TransferKeys ==
    <<"A", "B", "C", SYSTEM_PROGRAM_ID, TOKEN_PROGRAM_ID, STAKE_PROGRAM_ID,
      JUP_V6_PROGRAM_ID>>
\* program and first data byte of the instructions met: transfers of the
\* three programs and instructions that move nothing
TransferKinds ==
    {<<3, 2>>, <<3, 13>>, <<3, 1>>, <<4, 3>>, <<4, 12>>, <<4, 1>>, <<5, 4>>,
     <<5, 1>>, <<6, 2>>}
\* five accounts, the first three over the accounts A and B
AccountLists == {<<a, b, c, 2, 2>> : a \in {0, 1}, b \in {0, 1}, c \in {0, 1}}
InnerKinds ==
    {[program_id_index |-> k[1], data |-> [tag |-> k[2]], accounts |-> l] :
        k \in TransferKinds, l \in AccountLists}
TopKinds ==
    {[program_id |-> At(TransferKeys, k[1]), data |-> [tag |-> k[2]],
      accounts |-> [x \in 1..5 |-> At(TransferKeys, l[x])]] :
        k \in TransferKinds, l \in AccountLists}
Metas == {[pre_token_balances |-> b] : b \in {<<>>, [a \in {"A", "B"} |-> "M1"]}}
RouteIx ==
    [program_id |-> JUP_V6_PROGRAM_ID, data |-> [tag |-> 1],
     accounts |-> <<"A", "B", "C", "C", "C">>]
TransferInput(x) ==
    \/ \E top \in TopKinds, meta \in Metas :
         x = [ix |-> top, inner |-> <<>>, account_keys |-> TransferKeys, meta |-> meta]
    \/ \E n \in 1..MaxTransferIxs, meta \in Metas :
         \E inner \in Tuples(InnerKinds, n) :
           x = [ix |-> RouteIx, inner |-> inner, account_keys |-> TransferKeys,
                meta |-> meta]

InitTransfers ==
    /\ TransferInput(tr_in) /\ tr_pass = 1 /\ tr_out = <<>>
    /\ LegIdle /\ DecIdle /\ PipeIdle /\ RtIdle /\ OffIdle
    /\ TsIdle /\ NewIdle /\ DetIdle /\ ExIdle /\ LutIdle

NextTransfers == RunTransferPass

SpecTransfers == InitTransfers /\ [][NextTransfers]_vars

-----------------------------------------------------------------------------
(* The generic swap finder with the legs of a swap: the transfers among    *)
(* the inner instructions that carry the input and the output.             *)

DefaultMint == ""
PubkeyDefault == SYSTEM_PROGRAM_ID

\* the transfer an inner instruction makes, as (from, to, auth, mint):
\* Transfer and TransferChecked of the token program with the mint of
\* either account, a lamport transfer of the system program with WSOL
token_transferred_inner_tuple(inner_ix, account_keys, meta) ==
    LET program_id == At(account_keys, inner_ix.program_id_index)
        t == from_to_indexs(inner_ix.data)
        from == At(account_keys, At(inner_ix.accounts, IF t.some THEN t.val[1] ELSE 0))
        to == At(account_keys, At(inner_ix.accounts, IF t.some THEN t.val[2] ELSE 1))
        auth == At(account_keys, At(inner_ix.accounts, IF t.some THEN t.val[3] ELSE 0))
        mint == IF mint_of(from, meta).some THEN mint_of(from, meta) ELSE mint_of(to, meta)
    IN IF inner_ix.program_id_index >= Len(account_keys) THEN NoneOpt
       ELSE IF is_token_program(program_id)
       THEN IF inner_ix.data.tag \in {3, 12} /\ mint.some
            THEN Some([from |-> from, to |-> to, auth |-> auth, mint |-> mint.val])
            ELSE NoneOpt
       ELSE IF program_id = SYSTEM_PROGRAM_ID /\ inner_ix.data.tag = 2
       THEN Some([from |-> from, to |-> to, auth |-> from, mint |-> WSOL_MINT])
       ELSE NoneOpt

\* the index recorded for a leg found at position i after the skipped ones
LegIndexNoSkip(i, skip) == i
LegIndex(i, skip) == i + skip

NoLegs ==
    [input_mint |-> NoneOpt, output_mint |-> NoneOpt, input_index |-> NoneOpt,
     output_index |-> NoneOpt, authority |-> "", at |-> -1]

\* one inner instruction seen by the scan: it becomes the input leg, the
\* output leg or neither; index is the position recorded for it
SeeTransfer(legs, t, index, atas, blacklist_atas) ==
    IF ~t.some \/ t.val.from \in blacklist_atas \/ t.val.to \in blacklist_atas
    THEN legs
    ELSE IF /\ t.val.from = atas.input_ata
            /\ (t.val.to = atas.pool_output_ata \/ atas.pool_output_ata = PubkeyDefault)
    THEN [legs EXCEPT !.input_mint = Some(t.val.mint), !.input_index = Some(index),
                      !.authority = t.val.auth]
    ELSE IF /\ t.val.to = atas.output_ata
            /\ (t.val.from = atas.pool_input_ata \/ atas.pool_input_ata = PubkeyDefault)
    THEN [legs EXCEPT !.output_mint = Some(t.val.mint), !.output_index = Some(index)]
    ELSE legs

\* the swap is the top-level instruction: every inner instruction after the
\* skipped ones is seen, a later leg replacing an earlier one
RECURSIVE ScanAll(_, _, _, _, _, _, _, _)
ScanAll(rest, i, skip, legs, atas, blacklist_atas, account_keys, meta) ==
    IF i >= Len(rest) THEN legs
    ELSE ScanAll(rest, i + 1, skip,
                 SeeTransfer(legs, token_transferred_inner_tuple(At(rest, i), account_keys, meta),
                             LegIndex(i, skip), atas, blacklist_atas),
                 atas, blacklist_atas, account_keys, meta)

\* the swap is an inner instruction: the scan from j stops at the first
\* position by which both legs are found, recorded in the field at
RECURSIVE ScanUntilBoth(_, _, _, _, _, _, _)
ScanUntilBoth(inner_ixs, j, legs, atas, f, account_keys, meta) ==
    IF j >= Len(inner_ixs) THEN legs
    ELSE LET next_inner_ix == At(inner_ixs, j)
             blacklist_atas ==
                 {At(account_keys, At(next_inner_ix.accounts, b)) :
                      b \in {c \in f.blacklist : c < Len(next_inner_ix.accounts)}}
             seen == SeeTransfer(legs, token_transferred_inner_tuple(next_inner_ix, account_keys, meta),
                                 j, atas, blacklist_atas)
         IN IF seen.input_mint.some /\ seen.output_mint.some
            THEN [seen EXCEPT !.at = j]
            ELSE ScanUntilBoth(inner_ixs, j + 1, seen, atas, f, account_keys, meta)

MintOrDefault(m) == IF m.some THEN m.val ELSE DefaultMint

FoundSwap(outer_program, legs, atas, inner_ix_index) ==
    [outer_program |-> outer_program, authority |-> legs.authority,
     input_mint |-> MintOrDefault(legs.input_mint),
     output_mint |-> MintOrDefault(legs.output_mint),
     input_ata |-> atas.input_ata, output_ata |-> atas.output_ata,
     input_inner_ix_index |-> legs.input_index,
     output_inner_ix_index |-> legs.output_index,
     inner_ix_index |-> inner_ix_index]

\* user_ata_ix / pool_ata_ix and their inner forms, by the account indexes
\* of the finder; keys are the pubkeys the accounts resolve to
AtasOf(f, keys) ==
    [input_ata |-> At(keys, f.user_in), output_ata |-> At(keys, f.user_out),
     pool_input_ata |-> IF f.pool THEN At(keys, f.pool_in) ELSE PubkeyDefault,
     pool_output_ata |-> IF f.pool THEN At(keys, f.pool_out) ELSE PubkeyDefault]

RECURSIVE InnerLegSwaps(_, _, _, _, _, _, _)
InnerLegSwaps(f, ix, inner_ixs, account_keys, meta, i, next_logical_ix) ==
    IF i >= Len(inner_ixs) THEN <<>>
    ELSE LET inner_ix == At(inner_ixs, i)
             skipped ==
                 \/ i < next_logical_ix
                 \/ inner_ix.program_id_index >= Len(account_keys)
                 \/ At(account_keys, inner_ix.program_id_index) # f.program_id
                 \/ inner_ix.data.tag # f.discriminant
             atas == AtasOf(f, [x \in 1..Len(inner_ix.accounts) |->
                                    At(account_keys, inner_ix.accounts[x])])
             legs == ScanUntilBoth(inner_ixs, i + f.ixs_to_skip, NoLegs, atas, f,
                                   account_keys, meta)
         IN IF skipped
            THEN InnerLegSwaps(f, ix, inner_ixs, account_keys, meta, i + 1,
                               next_logical_ix)
            ELSE <<FoundSwap(ix.program_id, legs, atas, Some(i))>>
                     \o InnerLegSwaps(f, ix, inner_ixs, account_keys, meta, i + 1,
                                      IF legs.at >= 0 THEN legs.at + 1
                                      ELSE next_logical_ix)

find_swaps_generic_legs(f, ix, inner_ixs, account_keys, meta) ==
    IF Len(inner_ixs) <= f.ixs_to_skip THEN <<>>
    ELSE IF ix.program_id = f.program_id
    THEN IF ix.data.tag # f.discriminant THEN <<>>
         ELSE LET atas == AtasOf(f, ix.accounts)
                  blacklist_atas ==
                      {At(ix.accounts, b) : b \in {c \in f.blacklist : c < Len(ix.accounts)}}
                  rest == SubSeq(inner_ixs, f.ixs_to_skip + 1, Len(inner_ixs))
              IN <<FoundSwap(None,
                             ScanAll(rest, 0, f.ixs_to_skip, NoLegs, atas, blacklist_atas,
                                     account_keys, meta),
                             atas, NoneOpt)>>
    ELSE InnerLegSwaps(f, ix, inner_ixs, account_keys, meta, 0, 0)

FindLegs ==
    /\ leg_pc = "ready"
    /\ leg_out' = find_swaps_generic_legs(leg_in.finder, leg_in.ix, leg_in.inner,
                                          leg_in.account_keys, leg_in.meta)
    /\ leg_pc' = "done"
    /\ UNCHANGED <<leg_in, trVars, decVars, pipeVars, rtVars, offVars, tsVars, newVars, detVars,
                   exVars, lutVars>>

(* SpecLegs: one search of a finder on a swap with up to MaxLegIxs inner   *)
(* instructions, the swap top-level or invoked by a router.                *)

\* user input, user output, pool input, pool output account, another
\* account, then the programs
LegKeys ==
    <<"UI", "UO", "PI", "PO", "X", WHIRLPOOL_PUBKEY, TOKEN_PROGRAM_ID,
      SYSTEM_PROGRAM_ID, JUP_V6_PROGRAM_ID>>
LegFinders ==
    {[program_id |-> WHIRLPOOL_PUBKEY, discriminant |-> 248, user_in |-> 1,
      user_out |-> 2, pool |-> p, pool_in |-> 3, pool_out |-> 4, ixs_to_skip |-> s,
      blacklist |-> b] : p \in BOOLEAN, s \in {0, 1}, b \in {{}, {0}}}
\* the accounts of the swap instruction: the pool X, then the four accounts
SwapAccounts == <<4, 0, 1, 2, 3>>
TokenLeg(from, to) ==
    [program_id_index |-> 6, data |-> [tag |-> 3], accounts |-> <<from, to, 4>>]
LegIxs ==
    {TokenLeg(0, 3), TokenLeg(2, 1), TokenLeg(0, 4), TokenLeg(4, 1), TokenLeg(0, 1),
     [program_id_index |-> 7, data |-> [tag |-> 2], accounts |-> <<0, 3>>],
     [program_id_index |-> 5, data |-> [tag |-> 248], accounts |-> SwapAccounts]}
LegMetas ==
    {[pre_token_balances |-> [a \in {"UI", "PO"} |-> "M1"] @@ [a \in {"PI", "UO"} |-> "M2"]],
     [pre_token_balances |-> [a \in {"PO"} |-> "M1"] @@ [a \in {"PI"} |-> "M2"]]}
LegTops ==
    {[program_id |-> WHIRLPOOL_PUBKEY, data |-> [tag |-> 248],
      accounts |-> [x \in 1..Len(SwapAccounts) |-> At(LegKeys, SwapAccounts[x])]],
     [program_id |-> JUP_V6_PROGRAM_ID, data |-> [tag |-> 229],
      accounts |-> <<"X", "UI", "UO">>]}
LegInput(x) ==
    \E f \in LegFinders, top \in LegTops, meta \in LegMetas, n \in 0..MaxLegIxs :
        \E inner \in Tuples(LegIxs, n) :
            x = [finder |-> f, ix |-> top, inner |-> inner, account_keys |-> LegKeys,
                 meta |-> meta]

InitLegs ==
    /\ LegInput(leg_in) /\ leg_pc = "ready" /\ leg_out = <<>>
    /\ TrIdle /\ DecIdle /\ PipeIdle /\ RtIdle /\ OffIdle
    /\ TsIdle /\ NewIdle /\ DetIdle /\ ExIdle /\ LutIdle

NextLegs == FindLegs

SpecLegs == InitLegs /\ [][NextLegs]_vars

-----------------------------------------------------------------------------
(* decompile_tx: the instructions of a message are rebuilt over the full   *)
(* key list, each account reference with its signer and writable flag.     *)

\* the full key list: static keys, then writable, then readonly LUT keys
full_account_keys(msg) ==
    [k \in 1..msg.num_static_keys |-> <<"static", k - 1>>]
        \o [k \in 1..msg.num_writable_lut_keys |-> <<"writable", k - 1>>]
        \o [k \in 1..msg.num_readonly_lut_keys |-> <<"readonly", k - 1>>]

\* the AccountMeta built for the i-th account of an instruction (0-based),
\* which holds the key index index
AccountMetaAt(msg, i, index) ==
    LET num_signed_accts == msg.num_required_signatures
    IN [pubkey |-> At(full_account_keys(msg), index),
        is_signer |-> i < num_signed_accts,
        is_writable |->
            IF i >= msg.num_static_keys
            THEN i - msg.num_static_keys < msg.num_writable_lut_keys
            ELSE IF i >= num_signed_accts
            THEN i - num_signed_accts
                     < msg.num_static_keys - num_signed_accts
                           - msg.num_readonly_unsigned_accounts
            ELSE i < num_signed_accts - msg.num_readonly_signed_accounts]

\* repackage into legacy ixs
repackage(msg) ==
    [x \in 1..Len(msg.instructions) |->
        LET ix == msg.instructions[x]
        IN [program_id |-> At(full_account_keys(msg), ix.program_id_index),
            accounts |-> [a \in 1..Len(ix.accounts) |->
                             AccountMetaAt(msg, a - 1, ix.accounts[a])],
            data |-> ix.data]]

decompile_tx ==
    /\ dc_pc = "ready"
    /\ dc_out' = [ixs |-> repackage(dc_in), account_keys |-> full_account_keys(dc_in)]
    /\ dc_pc' = "done"
    /\ UNCHANGED <<dc_in, trVars, legVars, pipeVars, rtVars, offVars, tsVars, newVars,
                   detVars, exVars, lutVars>>

(* SpecDecompile: one message with a valid header, lookups resolved, and   *)
(* one instruction of up to MaxIxAccounts account references.              *)

\* a valid header (the fee payer signs and is writable), the numbers of
\* LUT keys and one instruction over the keys
DecompileInput(x) ==
    \E s \in 1..MaxStaticKeys, w \in 0..MaxLutKeys, r \in 0..MaxLutKeys :
      \E g \in 1..s, n \in 0..MaxIxAccounts :
        \E rs \in 0..(g - 1), ru \in 0..(s - g), p \in 0..(s + w + r - 1) :
          \E accounts \in Tuples(0..(s + w + r - 1), n) :
            x = [num_static_keys |-> s, num_required_signatures |-> g,
                 num_readonly_signed_accounts |-> rs,
                 num_readonly_unsigned_accounts |-> ru,
                 num_writable_lut_keys |-> w, num_readonly_lut_keys |-> r,
                 instructions |-> <<[program_id_index |-> p, accounts |-> accounts,
                                     data |-> [tag |-> 0]]>>]

InitDecompile ==
    /\ DecompileInput(dc_in) /\ dc_pc = "ready"
    /\ dc_out = NoDecompiled
    /\ TrIdle /\ LegIdle /\ PipeIdle /\ RtIdle /\ OffIdle
    /\ TsIdle /\ NewIdle /\ DetIdle /\ ExIdle /\ LutIdle

NextDecompile == decompile_tx

SpecDecompile == InitDecompile /\ [][NextDecompile]_vars


-----------------------------------------------------------------------------
(* Claims about the Timestamp order.                                       *)

\* the key of a timestamp, the absent inner index below every present one
TsKey(t) ==
    <<t.slot, t.inclusion_order, t.ix_index,
      IF t.inner_ix_index.some THEN t.inner_ix_index.val ELSE -1>>

LexLess(x, y) ==
    \E q \in 1..4 : x[q] < y[q] /\ \A r \in 1..(q - 1) : x[r] = y[r]

SamePrefix(a, b) ==
    a.slot = b.slot /\ a.inclusion_order = b.inclusion_order /\ a.ix_index = b.ix_index

\* C7: the comparison of two timestamps is the lexicographic one on (slot,
\* inclusion_order, ix_index, inner_ix_index), a strict total order, in which
\* None is below every Some(k) and Some(k1) < Some(k2) iff k1 < k2.
C7_TimestampOrder ==
    cmp # "Unset" =>
        /\ (cmp = "Less") = LexLess(TsKey(ta), TsKey(tb))
        /\ (cmp = "Greater") = LexLess(TsKey(tb), TsKey(ta))
        /\ (cmp = "Equal") = (ta = tb)
        /\ ~TimestampLess(ta, ta)
        /\ \A tc \in Timestamps :
               TimestampLess(ta, tb) /\ TimestampLess(tb, tc) => TimestampLess(ta, tc)
        /\ (SamePrefix(ta, tb) /\ ~ta.inner_ix_index.some /\ tb.inner_ix_index.some)
               => cmp = "Less"
        /\ (SamePrefix(ta, tb) /\ ta.inner_ix_index.some /\ tb.inner_ix_index.some)
               => ((cmp = "Less") = (ta.inner_ix_index.val < tb.inner_ix_index.val))

C7_Witness ==
    /\ cmp = "Less" /\ SamePrefix(ta, tb)
    /\ ~ta.inner_ix_index.some /\ tb.inner_ix_index.some

-----------------------------------------------------------------------------
(* Claims about SandwichCandidate::new.                                    *)

Called == nres.err # "NotCalled"

\* C1: an accepted candidate has sum(backrun.output_amount) >=
\* sum(frontrun.input_amount) and sum(frontrun.output_amount) >=
\* sum(backrun.input_amount).
C1_Profitable ==
    nres.ok =>
        /\ SumOf(nres.backrun, "output_amount") >= SumOf(nres.frontrun, "input_amount")
        /\ SumOf(nres.frontrun, "output_amount") >= SumOf(nres.backrun, "input_amount")

C1_Witness ==
    /\ nres.ok /\ Len(nres.frontrun) + Len(nres.backrun) >= 3
    /\ SumOf(nres.backrun, "output_amount") = SumOf(nres.frontrun, "input_amount")

\* C2: in an accepted candidate all frontrun swaps have one trade pair, every
\* backrun swap has the reverse of it and every victim swap has that pair.
C2_Direction ==
    nres.ok =>
        LET p == PairOf(nres.frontrun[1])
        IN /\ \A x \in 1..Len(nres.frontrun) : PairOf(nres.frontrun[x]) = p
           /\ \A x \in 1..Len(nres.backrun) :
                  /\ nres.backrun[x].amm = p.amm
                  /\ nres.backrun[x].input_mint = p.output_mint
                  /\ nres.backrun[x].output_mint = p.input_mint
           /\ \A x \in 1..Len(nres.victim) : PairOf(nres.victim[x]) = p

C2_Witness ==
    nres.ok /\ Len(nres.frontrun) = 2 /\ Len(nres.victim) = 1 /\ Len(nres.backrun) = 1

CountOf(sq, field, a) == Cardinality({x \in 1..Len(sq) : sq[x][field] = a})
Monus(x, y) == IF x >= y THEN x - y ELSE 0

FrontOut == {nin.frontrun[x].output_ata : x \in 1..Len(nin.frontrun)}
BackIn == {nin.backrun[x].input_ata : x \in 1..Len(nin.backrun)}
Matching == {x \in 1..Len(nin.transfers) :
                nin.transfers[x].input_ata \in FrontOut
                /\ nin.transfers[x].output_ata \in BackIn}
ResidualFront == FrontOut \ {nin.transfers[x].input_ata : x \in Matching}
ResidualBack == BackIn \ {nin.transfers[x].output_ata : x \in Matching}

-----------------------------------------------------------------------------
(* Claims about detect and the inserted names.                             *)

KnownAggregators == {JUP_V6_PROGRAM_ID, JUP_V4_PROGRAM_ID, DFLOW_PROGRAM_ID}
Runs(c) == SeqRange(c.frontrun) \cup SeqRange(c.backrun)

\* C4: no sandwich detect emits, and no candidate it keeps, has a frontrun or
\* backrun swap whose outer_program is Jupiter v4, Jupiter v6 or DFlow; so a
\* valid frontrun/victim/backrun whose wrapper is a known aggregator is not
\* emitted.
C4_NoAggregator ==
    /\ \A x \in 1..Len(sandwiches) :
        \A s \in Runs(sandwiches[x]) : s.outer_program \notin KnownAggregators
    /\ \A x \in 1..Len(candidates) :
        \A s \in Runs(candidates[x]) : s.outer_program \notin KnownAggregators

\* detect has returned nothing on a frontrun, victim and backrun that new
\* accepts and whose wrapper is DFlow
C4_Witness ==
    /\ pc = "inserted" /\ Len(swaps) = 3 /\ sandwiches = <<>>
    /\ swaps[1].outer_program = DFLOW_PROGRAM_ID
    /\ swaps[3].outer_program = DFLOW_PROGRAM_ID
    /\ SandwichCandidate_new(<<swaps[1]>>, <<swaps[2]>>, <<swaps[3]>>, transfers).ok

\* C5: in every sandwich detect emits from a sorted list, each frontrun
\* timestamp is strictly less than each victim timestamp, and each victim
\* timestamp strictly less than each backrun timestamp.
C5_TemporalOrder ==
    \A x \in 1..Len(sandwiches) :
        \A v \in SeqRange(sandwiches[x].victim) :
            /\ \A f \in SeqRange(sandwiches[x].frontrun) :
                TimestampCmp(f.ts, v.ts) = "Less"
            /\ \A b \in SeqRange(sandwiches[x].backrun) :
                TimestampCmp(v.ts, b.ts) = "Less"

\* a sandwich was emitted although a swap of the victims' pair follows its
\* backrun
C5_Witness ==
    /\ pc = "inserted" /\ Len(sandwiches) > 0
    /\ \E k \in 1..Len(swaps) :
        /\ PairOf(swaps[k]) = PairOf(sandwiches[1].victim[1])
        /\ \A b \in SeqRange(sandwiches[1].backrun) :
            TimestampCmp(b.ts, swaps[k].ts) = "Less"

from_le_bytes(b) ==
    IF \A x \in 5..8 : b[x] = 0
    THEN b[1] + 256 * b[2] + 65536 * b[3] + 16777216 * b[4]
    ELSE -1
RECURSIVE DecodeIds(_)
DecodeIds(bytes) ==
    IF Len(bytes) < 8 THEN <<>>
    ELSE <<from_le_bytes(SubSeq(bytes, 1, 8))>>
             \o DecodeIds(SubSeq(bytes, 9, Len(bytes)))
IdsOf(sq) == [x \in 1..Len(sq) |-> sq[x].id]
IdSequence(s) ==
    IdsOf(s.frontrun) \o IdsOf(s.backrun) \o IdsOf(s.victim) \o IdsOf(s.transfers)

\* the sandwich with two of its frontrun, backrun and victim groups exchanged
Exchanges(s) ==
    {[s EXCEPT !.frontrun = s.backrun, !.backrun = s.frontrun],
     [s EXCEPT !.frontrun = s.victim, !.victim = s.frontrun],
     [s EXCEPT !.backrun = s.victim, !.victim = s.backrun]}

\* C9: the name hashed into the UUID of a sandwich is the ids of its
\* frontrun, then backrun, then victim swaps, then transfers, 8 little-endian
\* bytes each; sandwiches with the same id sequence get the same UUID, and
\* the name of the sandwich with two of its swap groups exchanged is a
\* different one.
C9_SandwichName ==
    pc = "inserted" =>
        /\ Len(names) = Len(sandwiches)
        /\ \A x \in 1..Len(sandwiches) :
            /\ Len(names[x].name) = 8 * Len(IdSequence(sandwiches[x]))
            /\ DecodeIds(names[x].name) = IdSequence(sandwiches[x])
            /\ \A b \in SeqRange(names[x].name) : b \in 0..255
            /\ \A y \in 1..Len(sandwiches) :
                IdSequence(sandwiches[x]) = IdSequence(sandwiches[y])
                    => names[x] = names[y]
            /\ \A g \in Exchanges(sandwiches[x]) : sandwich_name(g) # names[x].name

\* a sandwich with a kept transfer and ids on both sides of 256 was named
C9_Witness ==
    /\ pc = "inserted" /\ Len(names) > 0
    /\ Len(sandwiches[1].transfers) > 0
    /\ \E a, b \in SeqRange(IdSequence(sandwiches[1])) : a < 256 /\ b >= 256

-----------------------------------------------------------------------------
(* Claims about the extraction and the lookup-table cache.                 *)

\* C8: any two distinct events the finders emit for one transaction have
\* distinct timestamps, the two swaps of one Whirlpool two-hop instruction
\* included.
C8_DistinctTimestamps ==
    \A x, y \in 1..Len(tx_events) :
        x # y => tx_events[x].ts # tx_events[y].ts

\* C10: for every lookup-table key, no step replaces the cached table by a
\* shorter one or drops it.
C10_NeverShrinks ==
    [][\A k \in Keys : CacheLen(lut_cache'[k]) >= CacheLen(lut_cache[k])]_vars

-----------------------------------------------------------------------------
(* Claims about the streaming drivers.                                     *)

\* C11: while the channel is full and a batch waits to be sent, the event
\* processor does not take a further block from the stream
C11_WaitsForChannel ==
    [][(Len(channel) = ChannelCap /\ senders # {}) => next_block' = next_block]_vars

\* C12: a detection task reads its slot group only when no batch of a slot
\* of the group is still on its way to the store
C12_ReadsAfterCommit == \A r \in reads : r.uncommitted = {}

\* C13: at most 16 detection tasks are in flight, slot groups of the
\* realtime detector and chunks of the offline detector alike
C13_AtMost16 == Cardinality(detections) <= 16 /\ Cardinality(handles) <= 16

\* the slots of which a batch was handed to a send task
Batched == senders \cup SeqSet(channel) \cup inserts \cup store \cup lost

\* C14: a block with a transaction that fails to decode still has its
\* batch sent, and the event processor task goes on
C14_OnlyTransactionSkipped ==
    \A f \in decode_failed : f.slot \in Batched /\ ep # "panicked"

\* C15: the events of a slot whose insert failed are persisted later
C15_RetryPersists == \A s \in BlockSlots : [](s \in lost => <>(s \in store))

\* C18: after its stream ended each driver subscribes again, and no task
\* in flight at the disconnect is cancelled
C18_Resubscribes ==
    /\ []((ep = "ended" /\ subscriptions < MaxSubscriptions) => <>(ep = "streaming"))
    /\ [](rt = "exited" => <>(rt = "streaming"))
    /\ [](aborted = {})

-----------------------------------------------------------------------------
(* Claims about the errors of SandwichCandidate::new.                      *)

\* a run is usable: it is not empty and its swaps share one pair and one wrapper
RunOk(sw) ==
    /\ Len(sw) > 0
    /\ \A x \in 1..Len(sw) :
           /\ sw[x].amm = sw[1].amm
           /\ sw[x].input_mint = sw[1].input_mint
           /\ sw[x].output_mint = sw[1].output_mint
           /\ sw[x].outer_program = sw[1].outer_program
SamePair(a, b) ==
    a.amm = b.amm /\ a.input_mint = b.input_mint /\ a.output_mint = b.output_mint
ReversePair(a, b) ==
    a.amm = b.amm /\ a.input_mint = b.output_mint /\ a.output_mint = b.input_mint
BothRuns == Len(nin.frontrun) > 0 /\ Len(nin.backrun) > 0
ProfitA == SumOf(nin.backrun, "output_amount") - SumOf(nin.frontrun, "input_amount")
ProfitB == SumOf(nin.frontrun, "output_amount") - SumOf(nin.backrun, "input_amount")
VictimViolation ==
    /\ Len(nin.frontrun) > 0
    /\ \/ Len(nin.victim) = 0
       \/ \E x \in 1..Len(nin.victim) : ~SamePair(nin.victim[x], nin.frontrun[1])
       \/ \E x \in 1..Len(nin.victim) :
              /\ nin.victim[x].outer_program # None
              /\ nin.victim[x].outer_program = nin.frontrun[1].outer_program

\* the checks in the order of the claim, each true when the arguments violate it
CheckNames ==
    <<"InvalidFrontrun", "InvalidBackrun", "FrontrunBackrunPairMismatch",
      "FrontrunBackrunWrapperMismatch", "InvalidVictim", "NonProfitable",
      "InvalidTransfers">>
Violations ==
    <<~RunOk(nin.frontrun),
      ~RunOk(nin.backrun),
      BothRuns /\ ~ReversePair(nin.frontrun[1], nin.backrun[1]),
      BothRuns /\ nin.frontrun[1].outer_program # nin.backrun[1].outer_program,
      VictimViolation,
      ProfitA < 0 \/ ProfitB < 0,
      ResidualFront # ResidualBack>>
Violated == {k \in 1..Len(CheckNames) : Violations[k]}
FirstViolated == CHOOSE k \in Violated : \A j \in Violated : k <= j

OtherChecksPass == Violated \subseteq {5}

-----------------------------------------------------------------------------
(* Claims about the transfer finders and the legs of a swap.               *)

\* C19: no transfer emitted by the system, token or stake finder has its
\* input account equal to its output account, for a top-level and for an
\* inner transfer instruction
C19_NoSelfTransfer ==
    \A x \in 1..Len(tr_out) : tr_out[x].input_ata # tr_out[x].output_ata

\* the transfer the inner instruction at a recorded index makes
LegAt(index) == token_transferred_inner_tuple(At(leg_in.inner, index.val), leg_in.account_keys, leg_in.meta)
IsLamportTransfer(index) ==
    At(leg_in.account_keys, At(leg_in.inner, index.val).program_id_index)
        = SYSTEM_PROGRAM_ID

\* C20: in every swap of the generic finder, a recorded input index names a
\* transfer that leaves the swap's input account and has the swap's input
\* mint, a recorded output index names a transfer that arrives at the
\* swap's output account and has the swap's output mint, the mint is WSOL
\* when that transfer is a lamport transfer of the system program, and a
\* leg without index has the default mint
C20_LegMints ==
    leg_pc = "done" =>
        \A x \in 1..Len(leg_out) :
            LET s == leg_out[x]
            IN /\ IF s.input_inner_ix_index.some
                  THEN /\ s.input_inner_ix_index.val < Len(leg_in.inner)
                       /\ LegAt(s.input_inner_ix_index).some
                       /\ LegAt(s.input_inner_ix_index).val.mint = s.input_mint
                       /\ LegAt(s.input_inner_ix_index).val.from = s.input_ata
                       /\ IsLamportTransfer(s.input_inner_ix_index)
                              => s.input_mint = WSOL_MINT
                  ELSE s.input_mint = DefaultMint
               /\ IF s.output_inner_ix_index.some
                  THEN /\ s.output_inner_ix_index.val < Len(leg_in.inner)
                       /\ LegAt(s.output_inner_ix_index).some
                       /\ LegAt(s.output_inner_ix_index).val.mint = s.output_mint
                       /\ LegAt(s.output_inner_ix_index).val.to = s.output_ata
                       /\ IsLamportTransfer(s.output_inner_ix_index)
                              => s.output_mint = WSOL_MINT
                  ELSE s.output_mint = DefaultMint

C20_Witness ==
    /\ leg_pc = "done" /\ leg_in.finder.ixs_to_skip = 1 /\ Len(leg_out) = 1
    /\ leg_out[1].outer_program = None
    /\ leg_out[1].input_inner_ix_index = Some(1)
    /\ leg_out[1].output_inner_ix_index = Some(2)
    /\ leg_out[1].input_mint = WSOL_MINT /\ leg_out[1].output_mint = "M2"

-----------------------------------------------------------------------------
(* Claims about decompile_tx.                                              *)

\* the position of a key among the signed, or among the unsigned static keys
IsWritableKey(msg, k) ==
    \/ k < msg.num_required_signatures - msg.num_readonly_signed_accounts
    \/ /\ k >= msg.num_required_signatures /\ k < msg.num_static_keys
       /\ k - msg.num_required_signatures
              < (msg.num_static_keys - msg.num_required_signatures)
                    - msg.num_readonly_unsigned_accounts
    \/ /\ k >= msg.num_static_keys
       /\ k - msg.num_static_keys < msg.num_writable_lut_keys

\* C21: in every rebuilt instruction the flags of an account reference are
\* those of the key index k it holds: is_signer iff k < num_signed, and
\* is_writable iff k is a writable signed key, a writable unsigned static
\* key or a writable LUT key
C21_FlagsOfKey ==
    dc_pc = "done" =>
        \A x \in 1..Len(dc_out.ixs) :
            \A a \in 1..Len(dc_out.ixs[x].accounts) :
                LET k == dc_in.instructions[x].accounts[a]
                    meta == dc_out.ixs[x].accounts[a]
                IN /\ meta.pubkey = At(dc_out.account_keys, k)
                   /\ meta.is_signer <=> k < dc_in.num_required_signatures
                   /\ meta.is_writable <=> IsWritableKey(dc_in, k)

-----------------------------------------------------------------------------
(* Claims about the windows of the realtime detector.                      *)

\* the pings received so far
Pinged == FirstPing .. (next_meta - 1)
Window(d) == d.start_slot .. d.end_slot

\* C27: a detection is scheduled exactly on the pings with slot % 4 = 3;
\* the window of the ping of slot s is the aligned leader group
\* [s - 7, s - 4]; over pings of consecutive slots every such group is
\* dispatched exactly once and no two dispatched windows overlap
C27_AlignedWindows ==
    /\ \A s \in Pinged :
         Cardinality({x \in 1..Len(dispatched) :
                         dispatched[x] = [start_slot |-> s - 7, end_slot |-> s - 4]})
             = IF s % 4 = 3 THEN 1 ELSE 0
    /\ \A x \in 1..Len(dispatched) :
         /\ dispatched[x].start_slot % LEADER_GROUP_SIZE = 0
         /\ dispatched[x].end_slot = dispatched[x].start_slot + LEADER_GROUP_SIZE - 1
         /\ dispatched[x].start_slot + 7 \in Pinged
    /\ \A x, y \in 1..Len(dispatched) :
         x # y => Window(dispatched[x]) \cap Window(dispatched[y]) = {}

C27_Witness ==
    /\ Len(dispatched) >= 3 /\ next_meta % 4 = 2
    /\ dispatched[1] = [start_slot |-> 0, end_slot |-> 3]
    /\ dispatched[2] = [start_slot |-> 4, end_slot |-> 7]

-----------------------------------------------------------------------------
(* Claims about the delivery of the batches.                               *)

\* the blocks for which the event processor spawned a send task
Processed == {s \in BlockSlots : s < next_block} \ {f.slot : f \in decode_failed}
\* the batches the receiver has got from recv()
Delivered == inserts \cup store \cup lost
Places(s) ==
    (IF s \in senders THEN 1 ELSE 0)
        + Cardinality({x \in 1..Len(channel) : channel[x] = s})
        + (IF s \in Delivered THEN 1 ELSE 0)

-----------------------------------------------------------------------------
(* Claims about the enumeration of detect.                                 *)

\* the sandwich a step of detect appends
Emitted == sandwiches'[Len(sandwiches')]
Emits == sandwiches' # sandwiches

\* C22: every sandwich detect emits has a non-empty victim list that
\* contains the anchor swap for which it was enumerated
C22_VictimHasAnchor ==
    [][Emits => /\ Len(sandwiches') = Len(sandwiches) + 1
                /\ Len(Emitted.victim) > 0
                /\ swaps[anchor] \in SeqRange(Emitted.victim)]_vars

\* a sandwich of two victims was emitted for the anchor that is the second
C22_Witness ==
    /\ pc = "anchor" /\ Len(sandwiches) = 1 /\ anchor > 1
    /\ Len(sandwiches[1].victim) = 2
    /\ sandwiches[1].victim[1] = swaps[anchor - 1]

\* C23: for each anchor detect emits at most one sandwich, and when a
\* candidate was accepted for the anchor the emitted one is a candidate of
\* the anchor whose key (victims, frontruns + backruns) no other candidate
\* of the anchor exceeds in lexicographic order
C23_EmitsMaximum ==
    /\ [][Emits => /\ Len(sandwiches') = Len(sandwiches) + 1
                   /\ anchor' = anchor + 1
                   /\ Emitted \in SeqRange(candidates)
                   /\ \A c \in SeqRange(candidates) :
                        ~RankLess(RankKey(Emitted), RankKey(c))]_vars
    /\ [][(pc = "buckets" /\ pc' = "anchor" /\ candidates # <<>>) => Emits]_vars

\* an anchor with candidates of different keys, the emitted one not the first
C23_Witness ==
    /\ pc = "anchor" /\ Len(sandwiches) = 1 /\ Len(candidates) >= 2
    /\ \E c \in SeqRange(candidates) : RankLess(RankKey(c), RankKey(sandwiches[1]))
    /\ sandwiches[1] # candidates[1]

VictimIds(s) == {v.id : v \in SeqRange(s.victim)}

\* C24: in the output of detect no swap is a victim of more than one
\* emitted sandwich, and a swap whose timestamp is marked matched is never
\* taken as an anchor
C24_NoDoubleCounting ==
    /\ [](\A x, y \in 1..Len(sandwiches) :
            x # y => VictimIds(sandwiches[x]) \cap VictimIds(sandwiches[y]) = {})
    /\ [][(pc = "anchor" /\ pc' = "buckets")
              => swaps[anchor].ts \notin matched_timestamps]_vars

\* the candidates an enumeration accepts from a position on, with the
\* breaks of the code or through every tuple
RECURSIVE AcceptedFrom(_, _, _, _, _)
AcceptedFrom(sw, a, tr, p, pruned) ==
    IF p = LoopsDone THEN <<>>
    ELSE LET t == TupleAt(sw, a, p)
             r == SandwichCandidate_new(t.frontrun, t.victim, t.backrun, tr)
             blen == Len(before_outer(sw, a, p.k))
             alen == Len(after_outer(sw, a, p.k))
             nxt == IF pruned THEN AfterBody(r, p, blen, alen) ELSE NextN(p, blen, alen)
         IN (IF r.ok THEN <<r>> ELSE <<>>) \o AcceptedFrom(sw, a, tr, nxt, pruned)

\* the number of tuples tried from a position on
RECURSIVE TriedFrom(_, _, _, _, _)
TriedFrom(sw, a, tr, p, pruned) ==
    IF p = LoopsDone THEN 0
    ELSE LET t == TupleAt(sw, a, p)
             r == SandwichCandidate_new(t.frontrun, t.victim, t.backrun, tr)
             blen == Len(before_outer(sw, a, p.k))
             alen == Len(after_outer(sw, a, p.k))
             nxt == IF pruned THEN AfterBody(r, p, blen, alen) ELSE NextN(p, blen, alen)
         IN 1 + TriedFrom(sw, a, tr, nxt, pruned)

\* the buckets of the anchor that are enumerated, and those already left
Enumerated(sw, a) ==
    {k \in BucketKeys(before_swaps(sw, a)) \cap BucketKeys(after_swaps(sw, a)) :
        ~(k # None /\ is_known_aggregator(k))}
CandidatesOfBucket(k) ==
    LET Keep(c) == c.frontrun[1].outer_program = k IN SelectSeq(candidates, Keep)

\* C25: the breaks are sound: the candidates detect has accepted for a
\* bucket it has left are those an enumeration of every tuple
\* before[i..j] x after[m..n] accepts, in the same order, and their victims
\* are the timestamps marked
C25_BreaksSound ==
    pc = "buckets" =>
        \A k \in Enumerated(swaps, anchor) \ todo :
            /\ CandidatesOfBucket(k)
                   = AcceptedFrom(swaps, anchor, transfers, FirstPos(k), FALSE)
            /\ \A c \in SeqRange(CandidatesOfBucket(k)) :
                 \A v \in SeqRange(c.victim) : v.ts \in matched_timestamps

\* a bucket was left with a candidate accepted and a tuple skipped by a break
C25_Witness ==
    /\ pc = "buckets" /\ todo = {} /\ candidates # <<>>
    /\ \E k \in Enumerated(swaps, anchor) :
         /\ CandidatesOfBucket(k) # <<>>
         /\ TriedFrom(swaps, anchor, transfers, FirstPos(k), TRUE)
                < TriedFrom(swaps, anchor, transfers, FirstPos(k), FALSE)

\* C26: when new returns NonProfitable(A, B) with A < 0 at m = 0 and
\* n = |after|, the j loop is left: no longer frontrun range is tried for
\* the same i
C26_BreaksJLoop ==
    [][(/\ pc = "enum" /\ pos.m = 0
        /\ pos.n = Len(after_outer(swaps, anchor, pos.k))
        /\ LET t == TupleAt(swaps, anchor, pos)
               r == SandwichCandidate_new(t.frontrun, t.victim, t.backrun, transfers)
           IN r.err = "NonProfitable" /\ r.profit_a < 0)
          => ~(pc' = "enum" /\ pos'.k = pos.k /\ pos'.i = pos.i /\ pos'.j > pos.j)]_vars

\* the buckets in one fixed order
RECURSIVE InOrder(_)
InOrder(S) ==
    IF S = {} THEN <<>> ELSE LET k == CHOOSE x \in S : TRUE IN <<k>> \o InOrder(S \ {k})
RECURSIVE CandidatesInOrder(_, _, _, _)
CandidatesInOrder(sw, a, tr, keys) ==
    IF keys = <<>> THEN <<>>
    ELSE AcceptedFrom(sw, a, tr, FirstPos(Head(keys)), TRUE)
             \o CandidatesInOrder(sw, a, tr, Tail(keys))
\* detect with the buckets of every anchor taken in that order
RECURSIVE DetectFrom(_, _, _, _, _)
DetectFrom(sw, tr, a, matched, out) ==
    IF a > Len(sw) THEN out
    ELSE IF \/ sw[a].ts \in matched
            \/ Len(before_swaps(sw, a)) = 0 \/ Len(after_swaps(sw, a)) = 0
    THEN DetectFrom(sw, tr, a + 1, matched, out)
    ELSE LET cands == CandidatesInOrder(sw, a, tr, InOrder(Enumerated(sw, a)))
             victims == UNION {{v.ts : v \in SeqRange(c.victim)} : c \in SeqRange(cands)}
         IN DetectFrom(sw, tr, a + 1, matched \cup victims,
                       IF cands # <<>> THEN Append(out, LastOfSorted(cands)) ELSE out)

\* C30: detect is deterministic: the list it returns for a sorted input is
\* the same, members and order, in whatever order the buckets of the
\* wrappers are iterated, also when candidates of different wrappers tie
\* on the ranking key
C30_Deterministic ==
    pc = "returned" => sandwiches = DetectFrom(swaps, transfers, 1, {}, <<>>)

-----------------------------------------------------------------------------
(* Claims about what new reads of the transfers.                           *)

\* the transfers of a call with fields other than their accounts replaced
\* each variant changes one of the fields new does not read, or none
VariantChoices ==
    {[mint |-> "M2", amount |-> 1, authority |-> "U1", ts |-> T0],
     [mint |-> "M1", amount |-> 1, authority |-> "U1", ts |-> T0],
     [mint |-> "M2", amount |-> MaxAmount, authority |-> "U1", ts |-> T0],
     [mint |-> "M2", amount |-> 1, authority |-> "U2", ts |-> T0],
     [mint |-> "M2", amount |-> 1, authority |-> "U1", ts |-> Timestamp(1, 0, 0, NoneOpt)]}
VariantOf(t, c) ==
    [id |-> t.id, ts |-> c.ts, mint |-> c.mint, amount |-> c.amount,
     authority |-> c.authority, input_ata |-> t.input_ata, output_ata |-> t.output_ata]
Variants(trs) ==
    {[x \in 1..Len(trs) |-> VariantOf(trs[x], c[x])] :
        c \in Tuples(VariantChoices, Len(trs))}
AtaPairs(trs) == [x \in 1..Len(trs) |-> <<trs[x].input_ata, trs[x].output_ata>>]

====
